---- MODULE Spec2Model ----
(***************************************************************************)
(* Model of the scrape-and-cache refresh core of mel-parking:              *)
(*   backend/src/services/cacheService.js          (CacheService)          *)
(*   backend/src/services/parkingScraperService.js (ParkingScraperService) *)
(*   backend/src/jobs/scrapingScheduler.js         (ScrapingScheduler)     *)
(*                                                                         *)
(* Node runs the code on one thread: a handler runs without interruption   *)
(* from one `await` to the next.  Every action below is one such           *)
(* synchronous stretch of one caller; the callers interleave only at the   *)
(* awaits.  The headless browser is the environment: each awaited call on  *)
(* it may resolve or reject, and the content of the rendered page is an    *)
(* input.  Time is Date.now() in milliseconds.                             *)
(***************************************************************************)
EXTENDS Integers, Sequences, FiniteSets, TLC

(***************************************************************************)
(* Program constants                                                       *)
(***************************************************************************)
\* constants.js: SCRAPE_INTERVAL = parseInt(2) * 60 * 1000
SCRAPE_INTERVAL == 120000
\* scrapeParkingData: const cacheKey = "parking:scraped:all"
cacheKey == "parking:scraped:all"
\* generateMockData: for (let i = 1; i <= 100; i++)
MOCK_COUNT == 100
\* generateMockData: -37.8136 and 144.9631, in millionths of a degree
MOCK_LAT == -37813600
MOCK_LON == 144963100
\* generateMockData: Date.now() - Math.random() * 3600000
MOCK_AGE_MS == 3600000

(***************************************************************************)
(* Bounds of the model                                                     *)
(***************************************************************************)
\* the clock advances in steps of SCRAPE_INTERVAL / TicksPerInterval
TicksPerInterval == 2
\* number of clock steps explored, without and with overlapping calls
MaxTicks == 3
MaxOverlapTicks == 1
\* number of calls explored (scheduler cycles and queries together)
MaxCalls == 2
\* number of operations and of clock steps explored on the cache alone
MaxCacheOps == 4
MaxCacheTicks == 3
\* Math.random() is drawn from MaxSeed + 1 pseudo-random streams
MaxSeed == 0
\* number of external cache.delete / cache.clear calls explored
MaxExt == 1

TickMs == SCRAPE_INTERVAL \div TicksPerInterval
StartMs == TickMs
MaxTime == StartMs + MaxTicks * TickMs
MaxOverlapTime == StartMs + MaxOverlapTicks * TickMs
Seeds == 0..MaxSeed

(***************************************************************************)
(* JavaScript values.  A record of the data set is a JS object with string *)
(* fields; a payload is null, an array of records, or a plain object.      *)
(* A payload is a reference: the cache, a pending return and a caller hold *)
(* the same array.  An array built by the extraction carries its elements; *)
(* an array built by generateMockData is named by the instant and the      *)
(* random stream it was generated with, and Elems looks its elements up.   *)
(***************************************************************************)
Rec(id, marker, st, la, lo, upd) ==
    [bay_id |-> id, st_marker_id |-> marker, status |-> st,
     lat |-> la, lon |-> lo, lastupdated |-> upd]

NullVal == [tag |-> "null", elems |-> <<>>, mock |-> <<>>]
Arr(s) == [tag |-> "array", elems |-> s, mock |-> <<>>]
Obj == [tag |-> "object", elems |-> <<>>, mock |-> <<>>]
MockArr(t, seed) == [tag |-> "array", elems |-> <<>>, mock |-> <<t, seed>>]

\* JS truthiness of a payload: null is falsy, every array and object is truthy
Truthy(v) == v.tag # "null"
\* Array.isArray(v)
IsArray(v) == v.tag = "array"

\* String.prototype.padStart(n, ch)
RECURSIVE padStart(_, _, _)
padStart(s, n, ch) == IF Len(s) >= n THEN s ELSE padStart(ch \o s, n, ch)

\* String.prototype.trim() on the cell texts the fixtures use
trim(s) == IF s \in {" ", "  "} THEN "" ELSE s

\* new Date(ms).toISOString(), as an opaque rendering of the instant
toISOString(ms) == "iso:" \o ToString(ms)

\* digits of a fraction of `w` decimal places, trailing zeros dropped
RECURSIVE fracStr(_, _)
fracStr(f, w) ==
    IF f % 10 = 0 THEN fracStr(f \div 10, w - 1)
    ELSE padStart(ToString(f), w, "0")

\* String(x) for a number x given in millionths
String(u) ==
    LET a == IF u < 0 THEN 0 - u ELSE u
        sign == IF u < 0 THEN "-" ELSE ""
        ip == a \div 1000000
        fp == a % 1000000
    IN IF fp = 0 THEN sign \o ToString(ip)
       ELSE sign \o ToString(ip) \o "." \o fracStr(fp, 6)

(***************************************************************************)
(* CacheService                                                            *)
(***************************************************************************)
NoEntry == [present |-> FALSE, value |-> NullVal, expiresAt |-> 0]
Entry(v, e) == [present |-> TRUE, value |-> v, expiresAt |-> e]
\* the keys explored: the one the scraper uses and another one
otherKey == "other"
Keys == {cacheKey, otherKey}

\* faulty variant of set: the ttl is taken for seconds
CacheSetSeconds(c, st, key, value, ttl, t) ==
    [cache |-> [c EXCEPT ![key] = Entry(value, t + ttl \div 1000)],
     stats |-> [st EXCEPT !.sets = @ + 1]]

\* CacheService.set(key, value, ttl) at time t: the new [cache, stats]
CacheSet(c, st, key, value, ttl, t) ==
    [cache |-> [c EXCEPT ![key] = Entry(value, t + ttl)],
     stats |-> [st EXCEPT !.sets = @ + 1]]

\* faulty variant of get: an expired entry is reported absent but not removed
CacheGetNoEvict(c, st, key, t) ==
    IF ~c[key].present \/ t > c[key].expiresAt
    THEN [value |-> NullVal, cache |-> c,
          stats |-> [st EXCEPT !.misses = @ + 1]]
    ELSE [value |-> c[key].value, cache |-> c,
          stats |-> [st EXCEPT !.hits = @ + 1]]

\* CacheService.get(key) at time t: the returned value and the new [cache, stats]
CacheGet(c, st, key, t) ==
    IF ~c[key].present
    THEN [value |-> NullVal, cache |-> c,
          stats |-> [st EXCEPT !.misses = @ + 1]]
    ELSE IF t > c[key].expiresAt
    THEN [value |-> NullVal, cache |-> [c EXCEPT ![key] = NoEntry],
          stats |-> [st EXCEPT !.misses = @ + 1]]
    ELSE [value |-> c[key].value, cache |-> c,
          stats |-> [st EXCEPT !.hits = @ + 1]]

\* CacheService.delete(key)
CacheDelete(c, st, key) ==
    [result |-> c[key].present,
     cache |-> [c EXCEPT ![key] = NoEntry],
     stats |-> IF c[key].present THEN [st EXCEPT !.deletes = @ + 1] ELSE st]

\* CacheService.clear()
CacheClear(c, st) ==
    [cache |-> [k \in Keys |-> NoEntry],
     stats |-> [st EXCEPT !.deletes = @ + Cardinality({k \in Keys : c[k].present})]]

\* faulty variant of cleanup: every entry is removed
CacheCleanupAll(c, t) == [k \in Keys |-> NoEntry]

\* CacheService.cleanup() at time t: the new cache
CacheCleanup(c, t) ==
    [k \in Keys |-> IF c[k].present /\ t > c[k].expiresAt THEN NoEntry ELSE c[k]]

\* (num / den * 100).toFixed(2): the nearest number of hundredths, a tie going
\* up; equal to the result in IEEE doubles for every den below 160
toFixed2(num, den) ==
    LET n == (num * 20000 + den) \div (2 * den)
    IN ToString(n \div 100) \o "." \o padStart(ToString(n % 100), 2, "0")

\* faulty variant of getStats: the hit rate is taken over the hits and the sets
getStatsOverSets(c, st, t) ==
    [totalEntries |-> Cardinality({k \in Keys : c[k].present}),
     validEntries |-> Cardinality({k \in Keys : c[k].present /\ ~(t > c[k].expiresAt)}),
     expiredEntries |-> Cardinality({k \in Keys : c[k].present /\ t > c[k].expiresAt}),
     hits |-> st.hits, misses |-> st.misses, sets |-> st.sets, deletes |-> st.deletes,
     hitRate |-> IF st.hits + st.sets > 0
                 THEN toFixed2(st.hits, st.hits + st.sets) \o "%"
                 ELSE "0%"]

\* CacheService.getStats() at time t: the sizes, the counters and the hit rate
getStats(c, st, t) ==
    [totalEntries |-> Cardinality({k \in Keys : c[k].present}),
     validEntries |-> Cardinality({k \in Keys : c[k].present /\ ~(t > c[k].expiresAt)}),
     expiredEntries |-> Cardinality({k \in Keys : c[k].present /\ t > c[k].expiresAt}),
     hits |-> st.hits, misses |-> st.misses, sets |-> st.sets, deletes |-> st.deletes,
     hitRate |-> IF st.hits + st.misses > 0
                 THEN toFixed2(st.hits, st.hits + st.misses) \o "%"
                 ELSE "0%"]

(***************************************************************************)
(* ParkingScraperService.generateMockData                                  *)
(* Math.random() is modelled by a stream of tenths chosen by a seed.       *)
(***************************************************************************)
random(seed, k) == (seed * 7 + k * 3) % 10

\* faulty variant of mockRecord: the id is not padded to three digits
mockRecordUnpadded(i, t, seed) ==
    LET r(j) == random(seed, 4 * (i - 1) + j)
        statuses == <<"Present", "Unoccupied">>
    IN Rec("MOCK-" \o ToString(i),
           "M" \o ToString(i \div 10) \o "-" \o padStart(ToString(i % 10), 3, "0"),
           statuses[IF r(0) > 7 THEN 1 ELSE 2],
           String(MOCK_LAT + (r(1) - 5) * 2000),
           String(MOCK_LON + (r(2) - 5) * 2000),
           toISOString(t - r(3) * (MOCK_AGE_MS \div 10)))

mockRecord(i, t, seed) ==
    LET r(j) == random(seed, 4 * (i - 1) + j)
        statuses == <<"Present", "Unoccupied">>
    IN Rec("MOCK-" \o padStart(ToString(i), 3, "0"),
           "M" \o ToString(i \div 10) \o "-" \o padStart(ToString(i % 10), 3, "0"),
           statuses[IF r(0) > 7 THEN 1 ELSE 2],
           String(MOCK_LAT + (r(1) - 5) * 2000),
           String(MOCK_LON + (r(2) - 5) * 2000),
           toISOString(t - r(3) * (MOCK_AGE_MS \div 10)))

mockBatch(t, seed) == [i \in 1..MOCK_COUNT |-> mockRecord(i, t, seed)]

\* the batches of every instant of the clock and every stream, computed once
Instants == {StartMs + k * TickMs : k \in 0..(MaxTicks + MaxOverlapTicks)}
MockTable == [t \in Instants, seed \in Seeds |-> mockBatch(t, seed)]

generateMockData(t, seed) == MockArr(t, seed)

\* the elements of an array
Elems(v) == IF v.mock # <<>> THEN MockTable[v.mock[1], v.mock[2]] ELSE v.elems

\* v.length === 0 : a plain object has no length property (undefined)
LengthIsZero(v) == v.tag = "array" /\ Len(Elems(v)) = 0
\* v.length > 0 : undefined > 0 is false
LengthPositive(v) == v.tag = "array" /\ Len(Elems(v)) > 0

(***************************************************************************)
(* The in-page extraction of scrapeParkingData (page.evaluate).            *)
(* A page is [tables, scripts]: tables[k] is the list of rows the k-th     *)
(* row selector matches (a row is the list of the texts of its td cells),  *)
(* scripts is the list of inline scripts, each one of                      *)
(*   "plain"   : mentions neither bay_id nor parking                       *)
(*   "mention" : mentions one, but the {..bay_id..} pattern does not match *)
(*   "badjson" : the pattern matches and JSON.parse throws                 *)
(*   "json"    : the pattern matches and JSON.parse yields an object       *)
(***************************************************************************)
\* for (const selector of tableSelectors) { rows = ...; if (rows.length > 0) break }
RECURSIVE selectRows(_)
selectRows(tables) ==
    IF tables = <<>> THEN <<>>
    ELSE IF Len(Head(tables)) > 0 \/ Len(tables) = 1 THEN Head(tables)
    ELSE selectRows(Tail(tables))

\* the script loop: the first script whose match parses is returned
scriptYieldsObject(scripts) == \E k \in 1..Len(scripts) : scripts[k] = "json"

\* x || d on strings
orElse(x, d) == IF x # "" THEN x ELSE d

\* the spotData of one row of at least five cells
spotData(cells, index, t) ==
    Rec(orElse(trim(cells[1]), "BAY-" \o ToString(index)),
        trim(cells[2]),
        orElse(trim(cells[3]), "Unknown"),
        trim(cells[4]),
        trim(cells[5]),
        orElse(IF Len(cells) >= 6 THEN trim(cells[6]) ELSE "", toISOString(t)))

\* if (spotData.lat && spotData.lon) data.push(spotData)
keepSpot(spot) == spot.lat # "" /\ spot.lon # ""

\* rows.forEach((row, index) => ...) from row number `from` on (index is 0-based)
RECURSIVE parseRows(_, _, _)
parseRows(rows, from, t) ==
    IF from > Len(rows) THEN <<>>
    ELSE LET cells == rows[from]
             rest == parseRows(rows, from + 1, t)
         IN IF Len(cells) >= 5 /\ keepSpot(spotData(cells, from - 1, t))
            THEN <<spotData(cells, from - 1, t)>> \o rest
            ELSE rest

\* the value page.evaluate resolves with
evaluate(pg, t) ==
    LET rows == selectRows(pg.tables)
    IN IF Len(rows) = 0 /\ scriptYieldsObject(pg.scripts) THEN Obj
       ELSE Arr(parseRows(rows, 1, t))

(***************************************************************************)
(* Inputs: the rendered pages and the intercepted API payloads explored    *)
(***************************************************************************)
RowFull1 == <<"1001", "M1", "Present", "-37.8136", "144.9631", "2024-01-01T00:00:00Z">>
RowFull2 == <<"1002", "M2", "Unoccupied", "-37.8140", "144.9640", "2024-01-01T00:05:00Z">>
RowNoId == <<" ", "M3", "  ", "-37.8150", "144.9650">>
RowNoLat == <<"1004", "M4", "Present", "", "144.9660", "2024-01-01T00:10:00Z">>
RowShort == <<"1005", "M5", "Present", "-37.8170">>
RowNoCells == <<>>

PageTable == [tables |-> << <<RowFull1, RowFull2>> >>, scripts |-> <<"plain">>]
PageBlank == [tables |-> << <<>>, <<>> >>, scripts |-> <<>>]

Pages ==
    { PageTable, PageBlank,
      [tables |-> << <<>>, <<RowNoId, RowFull1>> >>, scripts |-> <<"json">>],
      [tables |-> << <<RowNoLat, RowFull2, RowShort>> >>, scripts |-> <<>>],
      [tables |-> << <<RowNoLat, RowShort, RowNoCells>> >>, scripts |-> <<"json">>],
      [tables |-> << <<>>, <<>> >>, scripts |-> <<"plain", "badjson", "json">>],
      [tables |-> << <<>>, <<>> >>, scripts |-> <<"mention", "badjson">>] }

\* the two pages the concurrent specification explores
FewPages == {PageTable, PageBlank}

ApiRec1 == Rec("2001", "A1", "Unoccupied", "-37.8100", "144.9600", "2024-01-01T00:00:00Z")
ApiRec2 == Rec("2002", "A2", "Present", "-37.8110", "144.9610", "2024-01-01T00:00:00Z")
\* a JSON element without coordinates and without a bay id
ApiRecBare == Rec("", "", "Present", "", "", "")

\* the arrays interceptAPICall can resolve with
ApiResults == { <<>>, <<ApiRec1, ApiRec2>>, <<ApiRec1, ApiRecBare>> }
FewApiResults == { <<>>, <<ApiRec1, ApiRec2>> }

(***************************************************************************)
(* State                                                                   *)
(***************************************************************************)
\* the callers of scrapeParkingData: the scheduler's cron tick and its
\* runNow(), and a query method called by the HTTP layer
Sched == {"cron", "runNow"}
Queries == {"q1"}
Callers == Sched \cup Queries
Methods == {"getAllParkingData", "getAvailableSpots", "getNearbySpots",
            "getAreaSpots", "getBayInfo", "getStatistics"}

VARIABLES
    now,             \* Date.now()
    cache, stats,    \* CacheService: this.cache, this.stats
    browser,         \* ParkingScraperService.browser: 0 is null, n the n-th launched
    isInitialized,   \* ParkingScraperService.isInitialized
    lastScrapeTime,  \* ParkingScraperService.lastScrapeTime: 0 is null
    launches,        \* number of puppeteer.launch() calls made
    openPages,       \* number of pages opened and not closed
    isRunning, scrapeCount, errorCount, lastError,   \* ScrapingScheduler
    pc,              \* per caller: the await its scrapeParkingData is suspended at
    br,              \* per caller: the local `browser` (0 while not resolved)
    page,            \* per caller: the local `page`: "undefined" or "open"
    tableFound,      \* per caller: the local `tableFound`
    ret,             \* per caller: the value of the pending `return`
    wrote,           \* per caller (history): the cache write of its cycle
    steps,           \* per caller (history): the steps its cycle has run
    last,            \* history: in the state a call settles in, that call and
                     \* what it handed back; NoCall in every other state
    tainted,         \* history: the cache was mutated from outside since the
                     \* last cache write by refresh
    calls, exts,     \* history: calls and external cache operations so far
    job,             \* ScrapingScheduler.job: "null", or the cron task it
                     \* references, "scheduled" or "stopped"
    live,            \* the browsers launched and not closed
    closing,         \* closeBrowser: the browser whose close() it awaits, or 0
    stored,          \* history, per key: the last set() not followed by a
                     \* delete() or clear()
    ic               \* interceptAPICall: the promise, its array, its timers and
                     \* the responses whose body is being read

vars == <<now, cache, stats, browser, isInitialized, lastScrapeTime, launches,
          openPages, isRunning, scrapeCount, errorCount, lastError, pc, br, page,
          tableFound, ret, wrote, steps, last, tainted, calls, exts, job, live,
          closing, stored, ic>>

svcVars == <<browser, isInitialized, launches, live>>
lifeVars == <<closing, stored, ic>>
schedVars == <<isRunning, scrapeCount, errorCount, lastError>>
cacheVars == <<cache, stats, lastScrapeTime, tainted>>
localVars == <<br, page, tableFound, ret, wrote, steps>>

NoWrite == [done |-> FALSE, value |-> NullVal, expiresAt |-> 0, stamp |-> 0, at |-> 0]
NoError == [message |-> "", timestamp |-> ""]
NoQuery == [m \in Methods |-> "none"]
\* a call that has not been answered by a query method has no reply
NoReply == [method |-> "none", args |-> [none |-> TRUE], error |-> "none",
            body |-> NullVal]
NoCall == [p |-> "none", hit |-> FALSE, kind |-> "none", value |-> NullVal,
           query |-> NoQuery, wrote |-> NoWrite, steps |-> <<>>, key |-> "",
           reply |-> NoReply]
NoStored == [set |-> FALSE, value |-> NullVal, at |-> 0, ttl |-> 0]
\* interceptAPICall has not been called
NoIntercept ==
    [phase |-> "idle", reload |-> "none", quiet |-> 0, fallback |-> 0,
     apiData |-> <<>>, resolved |-> FALSE, handed |-> <<>>, how |-> "none",
     reading |-> {}, arrived |-> <<>>, responses |-> 0, clock |-> 0]

Init ==
    /\ now = StartMs
    /\ cache = [k \in Keys |-> NoEntry]
    /\ stats = [hits |-> 0, misses |-> 0, sets |-> 0, deletes |-> 0]
    /\ browser = 0 /\ isInitialized = FALSE /\ lastScrapeTime = 0 /\ launches = 0
    /\ openPages = 0
    /\ isRunning = FALSE /\ scrapeCount = 0 /\ errorCount = 0 /\ lastError = NoError
    /\ pc = [p \in Callers |-> "idle"]
    /\ br = [p \in Callers |-> 0]
    /\ page = [p \in Callers |-> "undefined"]
    /\ tableFound = [p \in Callers |-> FALSE]
    /\ ret = [p \in Callers |-> NullVal]
    /\ wrote = [p \in Callers |-> NoWrite]
    /\ steps = [p \in Callers |-> <<>>]
    /\ last = NoCall
    /\ tainted = FALSE
    /\ calls = 0 /\ exts = 0
    /\ job = "null" /\ live = {} /\ closing = 0
    /\ stored = [k \in Keys |-> NoStored]
    /\ ic = NoIntercept

(***************************************************************************)
(* scrapeParkingData: the pieces shared by its steps                       *)
(***************************************************************************)
\* faulty variant of isFresh: the age comparison points the wrong way
isFreshReversed(cachedData, last_, t) ==
    Truthy(cachedData) /\ last_ # 0 /\ t - last_ > SCRAPE_INTERVAL

\* faulty variant of isFresh: the age of the last scrape decides alone
isFreshByAge(cachedData, last_, t) ==
    last_ # 0 /\ t - last_ < SCRAPE_INTERVAL

\* faulty variant of isFresh: a call made while the cache has nothing fresh is
\* answered from the cache all the same, as a single-flight guard would do
isFreshAlways(cachedData, last_, t) == TRUE

\* cachedData && this.lastScrapeTime && Date.now() - this.lastScrapeTime < this.scrapeInterval
isFresh(cachedData, last_, t) ==
    Truthy(cachedData) /\ last_ # 0 /\ t - last_ < SCRAPE_INTERVAL

\* faulty variant of storeAndStamp: the write leaves lastScrapeTime alone
storeNoStamp(v) ==
    LET r == CacheSet(cache, stats, cacheKey, v, SCRAPE_INTERVAL, now)
    IN /\ cache' = r.cache
       /\ stats' = r.stats
       /\ lastScrapeTime' = lastScrapeTime
       /\ tainted' = FALSE

\* cacheService.set(cacheKey, v, this.scrapeInterval); this.lastScrapeTime = Date.now()
storeAndStamp(v) ==
    LET r == CacheSet(cache, stats, cacheKey, v, SCRAPE_INTERVAL, now)
    IN /\ cache' = r.cache
       /\ stats' = r.stats
       /\ lastScrapeTime' = now
       /\ tainted' = FALSE

\* the record of that write in the history of the cycle: the entry and the
\* lastScrapeTime the write left, and the instant of the write
written ==
    [done |-> TRUE, value |-> cache'[cacheKey].value,
     expiresAt |-> cache'[cacheKey].expiresAt, stamp |-> lastScrapeTime', at |-> now]

\* data.filter(...) / data.find(...) in the query methods: a TypeError unless
\* data is an array; getAllParkingData only wraps the value
queryOutcome(m, v) ==
    IF m = "getAllParkingData" \/ IsArray(v) THEN "ok" ELSE "TypeError"

\* what the caller of a query method gets: its result, or the error rethrown
\* by the method's catch block
queryResult(threw, v) ==
    [m \in Methods |-> IF threw THEN "rethrown" ELSE queryOutcome(m, v)]

\* faulty variant of afterScrape: a success resets the error count
afterScrapeResetting(p, threw) ==
    IF p \in Sched
    THEN /\ isRunning' = FALSE
         /\ scrapeCount' = IF threw THEN scrapeCount ELSE scrapeCount + 1
         /\ errorCount' = IF threw THEN errorCount + 1 ELSE 0
         /\ lastError' = IF threw
                         THEN [message |-> "page.close failed",
                               timestamp |-> toISOString(now)]
                         ELSE lastError
    ELSE UNCHANGED schedVars

\* executeScrape after its await with the reset at the end of the try block
\* instead of in a finally block (faulty variant)
afterScrapeNoFinally(p, threw) ==
    IF p \in Sched
    THEN /\ isRunning' = threw
         /\ scrapeCount' = IF threw THEN scrapeCount ELSE scrapeCount + 1
         /\ errorCount' = IF threw THEN errorCount + 1 ELSE errorCount
         /\ lastError' = IF threw
                         THEN [message |-> "page.close failed",
                               timestamp |-> toISOString(now)]
                         ELSE lastError
    ELSE UNCHANGED schedVars

\* ScrapingScheduler.executeScrape after its await: try / catch / finally
afterScrape(p, threw) ==
    IF p \in Sched
    THEN /\ isRunning' = FALSE
         /\ scrapeCount' = IF threw THEN scrapeCount ELSE scrapeCount + 1
         /\ errorCount' = IF threw THEN errorCount + 1 ELSE errorCount
         /\ lastError' = IF threw
                         THEN [message |-> "page.close failed",
                               timestamp |-> toISOString(now)]
                         ELSE lastError
    ELSE UNCHANGED schedVars

\* scrapeParkingData settles and its caller continues; w and s are the write
\* and the steps of the cycle.  The locals of the call are gone
complete(p, hit, threw, v, w, s) ==
    /\ pc' = [pc EXCEPT ![p] = "idle"]
    /\ br' = [br EXCEPT ![p] = 0]
    /\ page' = [page EXCEPT ![p] = "undefined"]
    /\ tableFound' = [tableFound EXCEPT ![p] = FALSE]
    /\ ret' = [ret EXCEPT ![p] = NullVal]
    /\ wrote' = [wrote EXCEPT ![p] = NoWrite]
    /\ steps' = [steps EXCEPT ![p] = <<>>]
    /\ afterScrape(p, threw)
    /\ last' = [p |-> p, hit |-> hit,
                kind |-> IF threw THEN "threw" ELSE "returned",
                value |-> IF threw THEN NullVal ELSE v,
                query |-> IF p \in Queries THEN queryResult(threw, v) ELSE NoQuery,
                wrote |-> w, steps |-> s, key |-> "", reply |-> NoReply]

\* history: the await that threw, and the mock data that answered it
thrown(p) == <<"throw:" \o pc[p], "mock">>

\* faulty variant of catchError: the mock data are returned without being cached
catchErrorNoCache(p) ==
    \E seed \in Seeds :
        LET mockData == generateMockData(now, seed)
        IN /\ UNCHANGED cacheVars
           /\ IF page[p] = "open"
              THEN /\ pc' = [pc EXCEPT ![p] = "close"]
                   /\ ret' = [ret EXCEPT ![p] = mockData]
                   /\ steps' = [steps EXCEPT ![p] = @ \o thrown(p)]
                   /\ UNCHANGED <<br, page, tableFound, wrote, schedVars>> /\ last' = NoCall
              ELSE complete(p, FALSE, FALSE, mockData, NoWrite,
                            steps[p] \o thrown(p))

\* the catch block, then finally: with a page, page.close() is awaited next;
\* without one the function returns the mock data at once
catchError(p) ==
    \E seed \in Seeds :
        LET mockData == generateMockData(now, seed)
        IN /\ storeAndStamp(mockData)
           /\ IF page[p] = "open"
              THEN /\ pc' = [pc EXCEPT ![p] = "close"]
                   /\ ret' = [ret EXCEPT ![p] = mockData]
                   /\ wrote' = [wrote EXCEPT ![p] = written]
                   /\ steps' = [steps EXCEPT ![p] = @ \o thrown(p)]
                   /\ UNCHANGED <<br, page, tableFound, schedVars>> /\ last' = NoCall
              ELSE complete(p, FALSE, FALSE, mockData, written,
                            steps[p] \o thrown(p))

(***************************************************************************)
(* scrapeParkingData, from its call to its first await                     *)
(***************************************************************************)
beginScrape(p) ==
    LET g == CacheGet(cache, stats, cacheKey, now)
    IN /\ calls' = calls + 1
       /\ cache' = g.cache
       /\ stats' = g.stats
       /\ UNCHANGED <<now, lastScrapeTime, tainted, exts, lifeVars, live, browser, isInitialized,
                      openPages>>
       /\ IF isFresh(g.value, lastScrapeTime, now)
          THEN /\ complete(p, TRUE, FALSE, g.value, NoWrite, <<>>)
               /\ UNCHANGED launches
          ELSE \* initBrowser: if (!this.browser) this.browser = await puppeteer.launch()
               /\ IF browser = 0
                  THEN /\ launches' = launches + 1
                       /\ br' = [br EXCEPT ![p] = launches + 1]
                       /\ pc' = [pc EXCEPT ![p] = "launch"]
                  ELSE /\ launches' = launches
                       /\ br' = [br EXCEPT ![p] = browser]
                       /\ pc' = [pc EXCEPT ![p] = "newPage"]
               /\ IF p \in Sched
                  THEN isRunning' = TRUE /\ UNCHANGED <<scrapeCount, errorCount, lastError>>
                  ELSE UNCHANGED schedVars
               /\ UNCHANGED <<page, tableFound, ret, wrote, steps>> /\ last' = NoCall

\* a query method of ParkingScraperService is called
Query(p) ==
    /\ p \in Queries /\ pc[p] = "idle"
    /\ beginScrape(p)
    /\ UNCHANGED job

\* faulty variant of executeScrape: the isRunning guard is missing
executeScrapeUnguarded(p) ==
    /\ p \in Sched
    /\ pc[p] = "idle" /\ beginScrape(p)

\* ScrapingScheduler.executeScrape up to its await: while isRunning it returns
\* at once ("Previous scrape still running, skipping...")
executeScrape(p) ==
    /\ p \in Sched
    /\ IF isRunning
       THEN /\ calls' = calls + 1
            /\ last' = [NoCall EXCEPT !.p = p, !.kind = "skipped"]
            /\ UNCHANGED <<now, cacheVars, svcVars, openPages, schedVars, pc,
                           localVars, exts, lifeVars>>
       ELSE pc[p] = "idle" /\ beginScrape(p)

\* executeScrape is invoked, by the callback of the cron task or by runNow()
ExecuteScrape(p) ==
    /\ executeScrape(p)
    /\ UNCHANGED job

(***************************************************************************)
(* scrapeParkingData, one action per await                                 *)
(***************************************************************************)
\* what a step leaves alone whatever its outcome
stepFrame == <<now, calls, exts, job, lifeVars>>

\* the browser of a call is there: on a closed browser every await on it or on
\* one of its pages rejects
usable(p) == br[p] \in live

\* await puppeteer.launch() settles (initBrowser)
LaunchDone(p) ==
    /\ pc[p] = "launch"
    /\ \/ /\ browser' = br[p]
          /\ isInitialized' = TRUE
          /\ live' = live \cup {br[p]}
          /\ pc' = [pc EXCEPT ![p] = "newPage"]
          /\ UNCHANGED <<cacheVars, launches, schedVars, localVars>> /\ last' = NoCall
       \/ /\ catchError(p)
          /\ UNCHANGED svcVars
    /\ UNCHANGED <<stepFrame, openPages>>

\* await browser.newPage() settles
NewPage(p) ==
    /\ pc[p] = "newPage"
    /\ \/ /\ usable(p)
          /\ page' = [page EXCEPT ![p] = "open"]
          /\ openPages' = openPages + 1
          /\ pc' = [pc EXCEPT ![p] = "goto"]
          /\ UNCHANGED <<cacheVars, schedVars, br, tableFound, ret, wrote, steps>> /\ last' = NoCall
       \/ /\ catchError(p)
          /\ UNCHANGED openPages
    /\ UNCHANGED <<stepFrame, svcVars>>

\* await page.setViewport(), page.setUserAgent() and page.goto(this.baseUrl)
\* settle: three awaits in a row that touch nothing but the page
Goto(p) ==
    /\ pc[p] = "goto"
    /\ \/ /\ usable(p)
          /\ pc' = [pc EXCEPT ![p] = "probe"]
          /\ steps' = [steps EXCEPT ![p] = Append(@, "navigate")]
          /\ UNCHANGED <<cacheVars, schedVars, br, page, tableFound, ret, wrote>> /\ last' = NoCall
       \/ catchError(p)
    /\ UNCHANGED <<stepFrame, svcVars, openPages>>

\* faulty variant of Probe: the test of tableFound is inverted
ProbeInverted(p) ==
    /\ pc[p] = "probe"
    /\ \E found \in BOOLEAN :
          /\ found => usable(p)
          /\ tableFound' = [tableFound EXCEPT ![p] = found]
          /\ steps' = [steps EXCEPT ![p] = Append(@, IF found THEN "found" ELSE "notfound")]
          /\ pc' = [pc EXCEPT ![p] = IF found THEN "api" ELSE "load"]
    /\ UNCHANGED <<stepFrame, cacheVars, svcVars, openPages, schedVars, br, page,
                   ret, wrote>> /\ last' = NoCall

\* the waitForSelector loop ends: a selector was found, or every wait timed out;
\* without a table interceptAPICall is awaited next, with one loadAllData
Probe(p) ==
    /\ pc[p] = "probe"
    /\ \E found \in BOOLEAN :
          /\ found => usable(p)
          /\ tableFound' = [tableFound EXCEPT ![p] = found]
          /\ steps' = [steps EXCEPT ![p] = Append(@, IF found THEN "found" ELSE "notfound")]
          /\ pc' = [pc EXCEPT ![p] = IF found THEN "load" ELSE "api"]
    /\ UNCHANGED <<stepFrame, cacheVars, svcVars, openPages, schedVars, br, page,
                   ret, wrote>> /\ last' = NoCall

\* faulty variant of Intercept: the intercepted records are cached and the
\* cycle goes on to loadAllData instead of returning them
InterceptNoReturn(p, results) ==
    /\ pc[p] = "api"
    /\ \E a \in results :
          LET apiData == Arr(IF usable(p) THEN a ELSE <<>>)
          IN IF Truthy(apiData) /\ LengthPositive(apiData)
             THEN /\ storeAndStamp(apiData)
                  /\ wrote' = [wrote EXCEPT ![p] = written]
                  /\ ret' = [ret EXCEPT ![p] = apiData]
                  /\ steps' = [steps EXCEPT ![p] = Append(@, "api+")]
                  /\ pc' = [pc EXCEPT ![p] = "load"]
             ELSE /\ steps' = [steps EXCEPT ![p] = Append(@, "api0")]
                  /\ pc' = [pc EXCEPT ![p] = "load"]
                  /\ UNCHANGED <<cacheVars, ret, wrote>>
    /\ UNCHANGED <<stepFrame, svcVars, openPages, schedVars, br, page, tableFound>> /\ last' = NoCall

\* await this.interceptAPICall(page) resolves (it never rejects)
Intercept(p, results) ==
    /\ pc[p] = "api"
    /\ \E a \in results :
          LET apiData == Arr(IF usable(p) THEN a ELSE <<>>)
          IN IF Truthy(apiData) /\ LengthPositive(apiData)
             THEN /\ storeAndStamp(apiData)
                  /\ wrote' = [wrote EXCEPT ![p] = written]
                  /\ ret' = [ret EXCEPT ![p] = apiData]
                  /\ steps' = [steps EXCEPT ![p] = Append(@, "api+")]
                  /\ pc' = [pc EXCEPT ![p] = "close"]
             ELSE /\ steps' = [steps EXCEPT ![p] = Append(@, "api0")]
                  /\ pc' = [pc EXCEPT ![p] = "load"]
                  /\ UNCHANGED <<cacheVars, ret, wrote>>
    /\ UNCHANGED <<stepFrame, svcVars, openPages, schedVars, br, page, tableFound>> /\ last' = NoCall

\* await this.loadAllData(page) resolves (it catches its own errors)
LoadAllData(p) ==
    /\ pc[p] = "load"
    /\ pc' = [pc EXCEPT ![p] = "extract"]
    /\ steps' = [steps EXCEPT ![p] = Append(@, "load")]
    /\ UNCHANGED <<stepFrame, cacheVars, svcVars, openPages, schedVars, br, page,
                   tableFound, ret, wrote>> /\ last' = NoCall

\* the strategies page.evaluate ran on a page, each with whether it yielded
evaluateSteps(pg, t) ==
    LET rows == selectRows(pg.tables)
        data == evaluate(pg, t)
    IN IF Len(rows) > 0
       THEN << IF LengthPositive(data) THEN "table+" ELSE "table0" >>
       ELSE << "table0", IF scriptYieldsObject(pg.scripts) THEN "json+" ELSE "json0" >>

\* if (!parkingData || parkingData.length === 0): the mock data replace the result
isEmptyResult(parkingData) == ~Truthy(parkingData) \/ LengthIsZero(parkingData)

\* await page.evaluate(...) settles; then the empty check and the cache write
Extract(p, pages) ==
    /\ pc[p] = "extract"
    /\ \/ /\ usable(p)
          /\ \E pg \in pages :
               LET parkingData == evaluate(pg, now)
               IN IF isEmptyResult(parkingData)
                  THEN \E seed \in Seeds :
                         LET mockData == generateMockData(now, seed)
                         IN /\ storeAndStamp(mockData)
                            /\ wrote' = [wrote EXCEPT ![p] = written]
                            /\ ret' = [ret EXCEPT ![p] = mockData]
                            /\ steps' = [steps EXCEPT ![p] =
                                           @ \o evaluateSteps(pg, now) \o <<"mock">>]
                  ELSE /\ storeAndStamp(parkingData)
                       /\ wrote' = [wrote EXCEPT ![p] = written]
                       /\ ret' = [ret EXCEPT ![p] = parkingData]
                       /\ steps' = [steps EXCEPT ![p] = @ \o evaluateSteps(pg, now)]
          /\ pc' = [pc EXCEPT ![p] = "close"]
          /\ UNCHANGED <<schedVars, br, page, tableFound>> /\ last' = NoCall
       \/ catchError(p)
    /\ UNCHANGED <<stepFrame, svcVars, openPages>>

\* finally without the close: the function returns and the page stays open
\* (faulty variant)
ClosePageSkipped(p) ==
    /\ pc[p] = "close"
    /\ openPages' = openPages
    /\ complete(p, FALSE, FALSE, ret[p], wrote[p], steps[p])
    /\ UNCHANGED <<stepFrame, cacheVars, svcVars>>

\* finally: await page.close() settles; a rejection replaces the pending
\* return, and the page it was called on may or may not be gone by then
ClosePage(p) ==
    /\ pc[p] = "close"
    /\ \/ /\ openPages' = openPages - 1
          /\ complete(p, FALSE, FALSE, ret[p], wrote[p], steps[p])
       \/ /\ openPages' \in {openPages - 1, openPages}
          /\ complete(p, FALSE, TRUE, NullVal, wrote[p], steps[p])
    /\ UNCHANGED <<stepFrame, cacheVars, svcVars>>

(***************************************************************************)
(* The environment: the clock, and other users of the cache singleton      *)
(***************************************************************************)
Tick ==
    /\ now' = now + TickMs
    /\ UNCHANGED <<cacheVars, svcVars, openPages, schedVars, pc, localVars,
                   calls, exts, job, lifeVars>> /\ last' = NoCall

ExtDelete ==
    /\ LET r == CacheDelete(cache, stats, cacheKey)
       IN cache' = r.cache /\ stats' = r.stats
    /\ exts' = exts + 1
    /\ tainted' = TRUE
    /\ UNCHANGED <<now, lastScrapeTime, svcVars, openPages, schedVars, pc,
                   localVars, calls, job, lifeVars>> /\ last' = NoCall

ExtClear ==
    /\ LET r == CacheClear(cache, stats)
       IN cache' = r.cache /\ stats' = r.stats
    /\ exts' = exts + 1
    /\ tainted' = TRUE
    /\ UNCHANGED <<now, lastScrapeTime, svcVars, openPages, schedVars, pc,
                   localVars, calls, job, lifeVars>> /\ last' = NoCall

(***************************************************************************)
(* The life of the server: ScrapingScheduler.start and stop, and           *)
(* ParkingScraperService.cleanup                                           *)
(***************************************************************************)
\* what start, stop and cleanup leave alone
runVars == <<now, cacheVars, openPages, schedVars, pc, localVars, calls, exts, stored, ic>>

\* faulty variant of start: the immediate run is missing
StartWithoutRun ==
    /\ job = "null"
    /\ job' = "scheduled"
    /\ calls' = calls + 1
    /\ UNCHANGED <<now, cacheVars, svcVars, openPages, schedVars, pc, localVars,
                   exts, lifeVars>> /\ last' = NoCall

\* ScrapingScheduler.start(), called once when the server listens: the cron
\* task is scheduled and runNow() is called without being awaited
Start ==
    /\ job = "null"
    /\ job' = "scheduled"
    /\ executeScrape("runNow")

\* the cron task fires its callback
CronTick ==
    /\ job = "scheduled"
    /\ ExecuteScrape("cron")

\* faulty variant of stop: the test of this.job is inverted
StopNothing ==
    /\ job' = job
    /\ last' = [NoCall EXCEPT !.p = "stop", !.kind = "stop"]
    /\ UNCHANGED <<runVars, svcVars, closing>>

\* ScrapingScheduler.stop(): if (this.job) this.job.stop()
Stop ==
    /\ job' = IF job = "null" THEN "null" ELSE "stopped"
    /\ last' = [NoCall EXCEPT !.p = "stop", !.kind = "stop"]
    /\ UNCHANGED <<runVars, svcVars, closing>>

\* cleanup() -> closeBrowser(), up to its await: without a browser it returns
closeBrowser ==
    /\ closing = 0
    /\ IF browser # 0
       THEN closing' = browser /\ last' = NoCall
       ELSE closing' = 0 /\ last' = [NoCall EXCEPT !.p = "cleanup", !.kind = "returned"]
    /\ UNCHANGED <<runVars, svcVars>>

\* ParkingScraperService.cleanup() is called
Cleanup ==
    /\ closeBrowser
    /\ UNCHANGED job

\* the SIGTERM handler: scrapingScheduler.stop(), then cleanup() is awaited
Sigterm ==
    /\ job' = IF job = "null" THEN "null" ELSE "stopped"
    /\ closeBrowser

\* faulty variant of CloseDone: the reference to the closed browser is kept
CloseDoneKeepsRef ==
    /\ closing # 0
    /\ \/ /\ live' = live \ {closing}
          /\ browser' = browser /\ isInitialized' = FALSE
          /\ last' = [NoCall EXCEPT !.p = "cleanup", !.kind = "returned"]
       \/ /\ UNCHANGED <<live, browser, isInitialized>>
          /\ last' = [NoCall EXCEPT !.p = "cleanup", !.kind = "threw"]
    /\ closing' = 0
    /\ UNCHANGED <<runVars, launches, job>>

\* await this.browser.close() settles: this.browser = null, isInitialized =
\* false; a rejection leaves both and cleanup() throws
CloseDone ==
    /\ closing # 0
    /\ \/ /\ live' = live \ {closing}
          /\ browser' = 0 /\ isInitialized' = FALSE
          /\ last' = [NoCall EXCEPT !.p = "cleanup", !.kind = "returned"]
       \/ /\ UNCHANGED <<live, browser, isInitialized>>
          /\ last' = [NoCall EXCEPT !.p = "cleanup", !.kind = "threw"]
    /\ closing' = 0
    /\ UNCHANGED <<runVars, launches, job>>

LifeNext ==
    \/ calls < MaxCalls /\ Start
    \/ calls < MaxCalls /\ CronTick
    \/ \E p \in Queries : calls < MaxCalls /\ Query(p)
    \/ \E p \in Callers : LaunchDone(p)
    \/ \E p \in Callers : NewPage(p)
    \/ \E p \in Callers : Goto(p)
    \/ \E p \in Callers : Probe(p)
    \/ \E p \in Callers : Intercept(p, FewApiResults)
    \/ \E p \in Callers : LoadAllData(p)
    \/ \E p \in Callers : Extract(p, FewPages)
    \/ \E p \in Callers : ClosePage(p)
    \/ Stop
    \/ Cleanup
    \/ Sigterm
    \/ CloseDone

LifeSpec == Init /\ [][LifeNext]_vars

(***************************************************************************)
(* The CacheService on its own: set, get, delete, clear and cleanup called *)
(* on two keys with several ttl, as the clock advances                     *)
(***************************************************************************)
\* the ttl and the values explored
TTLs == {1, TickMs, 2 * TickMs}
Values == {Arr(<<>>), Obj}

\* what the operations of the cache leave alone
nonCacheVars == <<lastScrapeTime, tainted, svcVars, openPages, schedVars, pc,
                  localVars, calls, job, closing, ic>>

\* the operation that just returned, with its key and its result
cacheEvent(kind, key, value, note) ==
    [NoCall EXCEPT !.p = "cache", !.kind = kind, !.key = key, !.value = value,
                   !.steps = note]

DoSet(k, v, ttl) ==
    /\ LET r == CacheSet(cache, stats, k, v, ttl, now)
       IN cache' = r.cache /\ stats' = r.stats
    /\ stored' = [stored EXCEPT ![k] = [set |-> TRUE, value |-> v, at |-> now, ttl |-> ttl]]
    /\ last' = cacheEvent("set", k, NullVal, <<>>)
    /\ exts' = exts + 1
    /\ UNCHANGED <<now, nonCacheVars>>

DoGet(k) ==
    /\ LET r == CacheGet(cache, stats, k, now)
       IN /\ cache' = r.cache /\ stats' = r.stats
          /\ last' = cacheEvent("get", k, r.value,
                                IF r.cache # cache THEN <<"evict">> ELSE <<>>)
    /\ exts' = exts + 1
    /\ UNCHANGED <<now, stored, nonCacheVars>>

DoDelete(k) ==
    /\ LET r == CacheDelete(cache, stats, k)
       IN /\ cache' = r.cache /\ stats' = r.stats
          /\ last' = cacheEvent("delete", k, NullVal, <<IF r.result THEN "true" ELSE "false">>)
    /\ stored' = [stored EXCEPT ![k] = NoStored]
    /\ exts' = exts + 1
    /\ UNCHANGED <<now, nonCacheVars>>

DoClear ==
    /\ LET r == CacheClear(cache, stats)
       IN cache' = r.cache /\ stats' = r.stats
    /\ stored' = [k \in Keys |-> NoStored]
    /\ last' = cacheEvent("clear", "", NullVal, <<>>)
    /\ exts' = exts + 1
    /\ UNCHANGED <<now, nonCacheVars>>

DoCleanup ==
    /\ cache' = CacheCleanup(cache, now)
    /\ last' = cacheEvent("cleanup", "", NullVal, <<>>)
    /\ exts' = exts + 1
    /\ UNCHANGED <<now, stats, stored, nonCacheVars>>

\* getStats() is called: it reads, and hands back among others the hit rate
DoGetStats ==
    /\ last' = cacheEvent("getStats", "", NullVal,
                          <<getStats(cache, stats, now).hitRate>>)
    /\ exts' = exts + 1
    /\ UNCHANGED <<now, cache, stats, stored, nonCacheVars>>

CacheNext ==
    \/ \E k \in Keys, v \in Values, ttl \in TTLs : exts < MaxCacheOps /\ DoSet(k, v, ttl)
    \/ \E k \in Keys : exts < MaxCacheOps /\ DoGet(k)
    \/ \E k \in Keys : exts < MaxCacheOps /\ DoDelete(k)
    \/ exts < MaxCacheOps /\ DoClear
    \/ exts < MaxCacheOps /\ DoCleanup
    \/ exts < MaxCacheOps /\ DoGetStats
    \/ now + TickMs <= StartMs + MaxCacheTicks * TickMs /\ Tick

CacheSpec == Init /\ [][CacheNext]_vars

(***************************************************************************)
(* Spec: the callers overlap freely (a cron tick, runNow and a query), on  *)
(* two pages and a short clock.                                            *)
(***************************************************************************)
Next ==
    \/ \E p \in Queries : calls < MaxCalls /\ Query(p)
    \/ \E p \in Sched : calls < MaxCalls /\ ExecuteScrape(p)
    \/ \E p \in Callers : LaunchDone(p)
    \/ \E p \in Callers : NewPage(p)
    \/ \E p \in Callers : Goto(p)
    \/ \E p \in Callers : Probe(p)
    \/ \E p \in Callers : Intercept(p, FewApiResults)
    \/ \E p \in Callers : LoadAllData(p)
    \/ \E p \in Callers : Extract(p, FewPages)
    \/ \E p \in Callers : ClosePage(p)
    \/ now + TickMs <= MaxOverlapTime /\ Tick

Spec == Init /\ [][Next]_vars

(***************************************************************************)
(* SeqSpec: every call returns before the next one starts; every page and  *)
(* API payload, a longer clock, and other users deleting from the cache.   *)
(***************************************************************************)
Quiet == \A p \in Callers : pc[p] = "idle"

SeqNext ==
    \/ \E p \in Queries : calls < MaxCalls /\ Quiet /\ Query(p)
    \/ \E p \in Sched : calls < MaxCalls /\ Quiet /\ ExecuteScrape(p)
    \/ \E p \in Callers : LaunchDone(p)
    \/ \E p \in Callers : NewPage(p)
    \/ \E p \in Callers : Goto(p)
    \/ \E p \in Callers : Probe(p)
    \/ \E p \in Callers : Intercept(p, ApiResults)
    \/ \E p \in Callers : LoadAllData(p)
    \/ \E p \in Callers : Extract(p, Pages)
    \/ \E p \in Callers : ClosePage(p)
    \/ now + TickMs <= MaxTime /\ Tick
    \/ exts < MaxExt /\ ExtDelete
    \/ exts < MaxExt /\ ExtClear

SeqSpec == Init /\ [][SeqNext]_vars

(***************************************************************************)
(* Properties of scrapeParkingData ("refresh")                             *)
(***************************************************************************)
\* a step in which scrapeParkingData is entered: it is the only step that
\* counts a call and looks the key up
IsRefreshCall == calls' = calls + 1 /\ stats' # stats

\* the cache holds an unexpired record set and lastScrapeTime is set and less
\* than one interval old, read off the state
FreshNow ==
    /\ cache[cacheKey].present /\ now <= cache[cacheKey].expiresAt
    /\ cache[cacheKey].value.tag # "null"
    /\ lastScrapeTime # 0 /\ now - lastScrapeTime < SCRAPE_INTERVAL

\* the calls that are inside scrapeParkingData
InFlight == {p \in Callers : pc[p] # "idle"}

\* C1: a call that finds an unexpired set in the cache and lastScrapeTime less
\* than one interval old returns that set at once and changes nothing but the
\* hit counter: no launch, no page, no navigation, no cache write, same
\* lastScrapeTime
C1_HitPathFrame ==
    [][(IsRefreshCall /\ FreshNow) =>
          /\ last'.kind = "returned" /\ last'.hit
          /\ last'.value = cache[cacheKey].value
          /\ last'.steps = <<>> /\ ~last'.wrote.done
          /\ cache' = cache /\ lastScrapeTime' = lastScrapeTime
          /\ stats' = [stats EXCEPT !.hits = @ + 1]
          /\ launches' = launches /\ openPages' = openPages
          /\ browser' = browser /\ isInitialized' = isInitialized
          /\ pc' = pc /\ page' = page /\ steps' = steps]_vars

\* C1 witness: a call has been answered from the cache, by a set written earlier
C1_Witness ==
    /\ last.hit /\ last.kind = "returned"
    /\ cache[cacheKey].present /\ last.value = cache[cacheKey].value
    /\ stats.hits > 0 /\ now > lastScrapeTime

\* C2: a call that misses the cache has, whenever it returns, stored exactly
\* the set it returns under the key with expiry one scrape interval after the
\* write, and set lastScrapeTime to the instant of the write
C2_StoresWhatItReturns ==
    /\ (last.kind = "returned" /\ ~last.hit) =>
          /\ last.wrote.done /\ last.wrote.value = last.value
          /\ last.wrote.expiresAt = last.wrote.at + SCRAPE_INTERVAL
          /\ last.wrote.stamp = last.wrote.at
    /\ \A p \in Callers : pc[p] = "close" =>
          /\ wrote[p].done /\ wrote[p].value = ret[p]
          /\ wrote[p].expiresAt = wrote[p].at + SCRAPE_INTERVAL
          /\ wrote[p].stamp = wrote[p].at

\* C2 witness: a call that scraped rows of the table has returned them
C2_Witness ==
    /\ last.kind = "returned" /\ ~last.hit /\ last.wrote.done
    /\ \E i \in 1..Len(last.steps) : last.steps[i] = "table+"
    /\ last.value.tag = "array" /\ last.value.mock = <<>>

\* C3: without overlap and without a cache mutation from outside, once a call
\* has scraped and written the cache at T, every call before T + the scrape
\* interval is answered from the cache and starts no navigation
C3_OneScrapePerStalePeriod ==
    [][(IsRefreshCall /\ Quiet /\ ~tainted /\ lastScrapeTime # 0
          /\ now < lastScrapeTime + SCRAPE_INTERVAL) =>
          /\ last'.hit /\ last'.kind = "returned"
          /\ last'.value = cache[cacheKey].value
          /\ pc' = pc /\ launches' = launches /\ openPages' = openPages]_vars

\* C3 witness: a call made after the instant of the last write, and less than
\* an interval after it, has been answered from the cache
C3_Witness ==
    /\ last.hit /\ ~tainted /\ lastScrapeTime # 0
    /\ now > lastScrapeTime /\ now < lastScrapeTime + SCRAPE_INTERVAL

\* C4: scrapeParkingData is not single-flight: a call that finds nothing fresh
\* starts a cycle of its own however many cycles are in flight, and isRunning
\* holds back the scheduler only
C4_NotSingleFlight ==
    [][(IsRefreshCall /\ ~FreshNow) =>
          /\ Cardinality(InFlight') = Cardinality(InFlight) + 1
          /\ \E p \in Callers :
                /\ pc[p] = "idle" /\ pc'[p] \in {"launch", "newPage"}
                /\ \A q \in Callers \ {p} : pc'[q] = pc[q]]_vars

\* C4 witness: a scheduled cycle and a query are navigating at the same time,
\* each on a page of its own, while isRunning is set
C4_Witness ==
    /\ isRunning /\ pc["q1"] = "goto" /\ page["q1"] = "open"
    /\ \E p \in Sched : pc[p] = "goto" /\ page[p] = "open"
    /\ openPages = 2

\* the histories of the cycles in flight and of the call that just settled
Histories == {steps[p] : p \in Callers} \cup {last.steps}

\* an entry of a history is in it
Has(h, x) == \E i \in 1..Len(h) : h[i] = x

\* the strategies a cycle ran, in the order it ran them
StrategySteps == {"api+", "api0", "table+", "table0", "json+", "json0", "mock"}
IsStrategyStep(x) == x \in StrategySteps
Chain(h) == SelectSeq(h, IsStrategyStep)
Yielded(x) == x \in {"api+", "table+", "json+"}

\* C5: a call of scrapeParkingData never ends in an exception, whatever
\* fails on the way, page.close() included
C5_NeverThrows == last.kind # "threw"

\* a launch or newPage that failed: the call settles straight from that await
FatalAt(p) == pc[p] \in {"launch", "newPage"} /\ pc'[p] = "idle"

\* C6 as stated: a failed launch or newPage makes scrapeParkingData throw, the
\* query method rethrows, and the cache and lastScrapeTime stay as they were
C6_FatalPropagates ==
    [][\A p \in Callers : FatalAt(p) =>
          /\ last'.kind = "threw"
          /\ p \in Queries => \A m \in Methods : last'.query[m] = "rethrown"
          /\ cache' = cache /\ lastScrapeTime' = lastScrapeTime]_vars

\* C6 amended: a failed launch or newPage is caught inside scrapeParkingData:
\* the call returns the mock data, which it has cached for one scrape interval
\* with lastScrapeTime set, no page is opened, and the query method computes
\* its result from the mock data; a query method rethrows what
\* scrapeParkingData does throw
C6_FatalIsCaught ==
    [][\A p \in Callers :
          /\ FatalAt(p) =>
                /\ last'.p = p /\ last'.kind = "returned" /\ ~last'.hit
                /\ last'.value.tag = "array" /\ last'.value.mock # <<>>
                /\ cache'[cacheKey] = Entry(last'.value, now + SCRAPE_INTERVAL)
                /\ lastScrapeTime' = now
                /\ openPages' = openPages
                /\ p \in Queries => \A m \in Methods : last'.query[m] = "ok"
          /\ (p \in Queries /\ last'.p = p /\ last'.kind = "threw") =>
                \A m \in Methods : last'.query[m] = "rethrown"]_vars

\* C6 witness: a query whose launch failed has been answered with mock data
C6_Witness ==
    /\ last.p \in Queries /\ last.kind = "returned"
    /\ last.steps = <<"throw:launch", "mock">>
    /\ browser = 0 /\ lastScrapeTime = now

\* the id of the i-th mock record
MockId(i) ==
    "MOCK-" \o (IF i < 10 THEN "00" ELSE IF i < 100 THEN "0" ELSE "") \o ToString(i)

\* rows are 100 records MOCK-001 .. MOCK-100 in order, each Present or
\* Unoccupied and with coordinates
IsMockRows(rows) ==
    /\ Len(rows) = 100
    /\ \A i \in 1..Len(rows) :
          LET r == rows[i]
          IN /\ r.bay_id = MockId(i)
             /\ r.status \in {"Present", "Unoccupied"}
             /\ r.lat # "" /\ r.lon # ""

\* that test for each batch generateMockData can produce
MockRowsOK == [t \in Instants, seed \in Seeds |-> IsMockRows(MockTable[t, seed])]

\* a payload is a mock batch; a payload built by generateMockData is held by
\* reference, so its rows are tested once per batch
IsMockBatch(v) ==
    /\ v.tag = "array"
    /\ IF v.mock # <<>>
       THEN MockRowsOK[v.mock[1], v.mock[2]]
       ELSE IsMockRows(v.elems)

\* no strategy of the cycle yielded
NoYield(h) == \A i \in 1..Len(h) : ~Yielded(h[i])

\* C7: when no strategy yields a record, or an await of the cycle throws, the
\* call caches and returns exactly a mock batch: 100 records with ids
\* MOCK-001 .. MOCK-100 in order, status Present or Unoccupied, coordinates
\* not empty
C7_MockBatch ==
    /\ (last.kind \in {"returned", "threw"} /\ ~last.hit /\ NoYield(last.steps)) =>
          /\ last.wrote.done /\ IsMockBatch(last.wrote.value)
          /\ last.kind = "returned" => last.value = last.wrote.value
    /\ \A p \in Callers : (pc[p] = "close" /\ NoYield(steps[p])) =>
          /\ IsMockBatch(ret[p]) /\ wrote[p].value = ret[p]

\* C7 witness: every strategy ran and yielded nothing, and the mock batch was
\* returned
C7_Witness ==
    /\ last.kind = "returned"
    /\ Chain(last.steps) = <<"api0", "table0", "json0", "mock">>
    /\ last.value.mock # <<>>

\* the place of a strategy in the order C8 states, and in the order of the code
StatedRank(x) ==
    CASE x \in {"table+", "table0"} -> 1 [] x \in {"json+", "json0"} -> 2
      [] x \in {"api+", "api0"} -> 3 [] OTHER -> 4
CodeRank(x) ==
    CASE x \in {"api+", "api0"} -> 1 [] x \in {"table+", "table0"} -> 2
      [] x \in {"json+", "json0"} -> 3 [] OTHER -> 4

\* C8 as stated: table scan, embedded-JSON scan, API interception, mock data, in
\* that order; API interception only after both scans yielded nothing
C8_StatedOrder ==
    \A h \in Histories :
        LET c == Chain(h)
        IN /\ \A i, j \in 1..Len(c) : i < j => StatedRank(c[i]) < StatedRank(c[j])
           /\ \A i \in 1..Len(c) : c[i] \in {"api+", "api0"} =>
                 /\ \E j \in 1..(i - 1) : c[j] = "table0"
                 /\ \E j \in 1..(i - 1) : c[j] = "json0"

\* C8 amended: the order is API interception, table scan, embedded-JSON scan,
\* mock data.  API interception runs first and only when no table selector was
\* found; the JSON scan runs only right after a table scan without records;
\* nothing runs after a strategy that yielded; the mock data come only after
\* strategies that yielded nothing or after a throw
C8_CodeOrder ==
    \A h \in Histories :
        LET c == Chain(h)
        IN /\ \A i, j \in 1..Len(c) : i < j => CodeRank(c[i]) < CodeRank(c[j])
           /\ \A i \in 1..Len(c) : c[i] \in {"api+", "api0"} =>
                 i = 1 /\ Has(h, "notfound") /\ ~Has(h, "found")
           /\ \A i \in 1..Len(c) : c[i] \in {"json+", "json0"} =>
                 i > 1 /\ c[i - 1] = "table0"
           /\ \A i \in 1..Len(c) : Yielded(c[i]) => i = Len(c)
           /\ \A i \in 1..Len(c) : c[i] = "mock" =>
                 \/ i > 1 /\ c[i - 1] \in {"table0", "json0"}
                 \/ \E k \in 1..Len(h) : h[k] = "mock" /\ k > 1 /\
                       h[k - 1] \in {"throw:launch", "throw:newPage", "throw:goto",
                                     "throw:extract"}

\* C8 witness: API interception ran first and yielded nothing, then the table
\* scan yielded records
C8_Witness ==
    /\ last.kind = "returned"
    /\ Chain(last.steps) = <<"api0", "table+">>

\* C9: what scrapeParkingData returns and caches is always an array, so no
\* query method fails on a payload that is not one
C9_AlwaysArray ==
    /\ cache[cacheKey].present => IsArray(cache[cacheKey].value)
    /\ last.kind = "returned" => IsArray(last.value)
    /\ (last.kind = "returned" /\ last.p \in Queries) =>
          \A m \in Methods : last.query[m] = "ok"

\* a record has a bay id, a status and both coordinates
IsComplete(r) == r.bay_id # "" /\ r.status # "" /\ r.lat # "" /\ r.lon # ""
AllComplete(v) == IsArray(v) => \A i \in 1..Len(Elems(v)) : IsComplete(Elems(v)[i])

\* C10: every record of a set that scrapeParkingData caches or returns has a
\* bay id, a status and both coordinates, whichever strategy produced it
C10_RecordsComplete ==
    /\ cache[cacheKey].present => AllComplete(cache[cacheKey].value)
    /\ last.kind = "returned" => AllComplete(last.value)

\* C11: with no set, delete or clear of the key in between, an entry stored
\* by set(key, value, t) at T is returned by get(key) at every time in
\* [T, T + t) and reported absent at every time from T + t on, T + t included
C11_TtlWindow ==
    (last.kind = "get" /\ stored[last.key].set) =>
        LET s == stored[last.key]
        IN IF now < s.at + s.ttl THEN last.value = s.value
                                 ELSE last.value = NullVal

\* a step in which get(k) returns
IsGet(k) == last'.kind = "get" /\ last'.key = k

\* C12: get(key) returns the value of an entry that is present and whose expiry
\* has not passed; when the expiry has passed it returns null and removes the
\* entry, which getStats then counts no more; for a key without entry it
\* returns null and leaves the map alone.  Nothing but get of the key,
\* cleanup, delete of the key and clear removes an entry: an expired entry
\* stays stored until then
C12_GetAndEvict ==
    [][\A k \in Keys :
          /\ (IsGet(k) /\ cache[k].present /\ ~(now > cache[k].expiresAt)) =>
                last'.value = cache[k].value /\ cache' = cache
          /\ (IsGet(k) /\ cache[k].present /\ now > cache[k].expiresAt) =>
                /\ last'.value = NullVal
                /\ cache' = [cache EXCEPT ![k] = NoEntry]
                /\ getStats(cache', stats', now').totalEntries =
                      getStats(cache, stats, now).totalEntries - 1
                /\ getStats(cache', stats', now').expiredEntries =
                      getStats(cache, stats, now).expiredEntries - 1
          /\ (IsGet(k) /\ ~cache[k].present) =>
                last'.value = NullVal /\ cache' = cache
          /\ (cache[k].present /\ ~cache'[k].present) =>
                \/ IsGet(k) /\ now > cache[k].expiresAt
                \/ last'.kind = "cleanup" /\ now > cache[k].expiresAt
                \/ last'.kind = "delete" /\ last'.key = k
                \/ last'.kind = "clear"]_vars

\* C12 witness: a get has just removed an expired entry, while another expired
\* entry that nothing touched is still stored
C12_Witness ==
    /\ last.kind = "get" /\ last.steps = <<"evict">> /\ last.value = NullVal
    /\ ~cache[last.key].present
    /\ \E k \in Keys : cache[k].present /\ now > cache[k].expiresAt
    /\ getStats(cache, stats, now).expiredEntries = 1

\* the scheduler's cycles that are past the guard
SchedInFlight == {p \in Sched : pc[p] # "idle"}

\* a step in which executeScrape is invoked, by the cron tick or by runNow
IsSchedInvocation ==
    /\ calls' = calls + 1
    /\ last'.p \in Sched \/ \E p \in Sched : pc[p] = "idle" /\ pc'[p] # "idle"

\* C13: an executeScrape invoked while isRunning returns without calling
\* scrapeParkingData, changes no counter and no lastError and is not queued:
\* a cycle starts only in the step of its invocation; so at most one cycle of
\* the scheduler is past the guard at any time
C13_ReentrancyGuard ==
    [][/\ Cardinality(SchedInFlight') <= 1
       /\ SchedInFlight' # {} => isRunning'
       /\ (isRunning /\ IsSchedInvocation) =>
             /\ last'.kind = "skipped"
             /\ pc' = pc /\ stats' = stats /\ cache' = cache
             /\ launches' = launches /\ openPages' = openPages
             /\ isRunning' /\ scrapeCount' = scrapeCount
             /\ errorCount' = errorCount /\ lastError' = lastError
       /\ (\E p \in Sched : pc[p] = "idle" /\ pc'[p] # "idle") =>
             ~isRunning /\ calls' = calls + 1]_vars

\* C13 witness: an invocation has just been skipped while a cycle of the
\* scheduler is in flight
C13_Witness ==
    /\ last.kind = "skipped" /\ isRunning
    /\ Cardinality(SchedInFlight) = 1 /\ last.p \notin SchedInFlight

\* a step in which a cycle of the scheduler ends
SchedSettles == last'.p \in Sched /\ last'.kind \in {"returned", "threw"}

IsStop == last'.kind = "stop"

\* a step in which the cron task starts a cycle or is turned away by the guard
IsCronInvocation ==
    \/ pc["cron"] = "idle" /\ pc'["cron"] # "idle"
    \/ last'.p = "cron"

\* C15: stop() leaves the cron task stopped, and once it is stopped the task
\* invokes no cycle; stop() touches nothing of a cycle in flight, which goes
\* on and, when it ends, counts its success or error and resets isRunning;
\* stop() before start() changes nothing
C15_StopHaltsTicks ==
    [][/\ IsStop => job' # "scheduled"
       /\ job = "stopped" => (job' = "stopped" /\ ~IsCronInvocation)
       /\ IsStop =>
             /\ pc' = pc /\ isRunning' = isRunning
             /\ UNCHANGED <<runVars, svcVars, closing>>
       /\ (IsStop /\ job = "null") => job' = "null"
       /\ (SchedSettles /\ job = "stopped") =>
             /\ ~isRunning'
             /\ scrapeCount' + errorCount' = scrapeCount + errorCount + 1]_vars

\* C15 witness: the cycle that start() began was in flight when stop() was
\* called, and has now ended and been counted
C15_Witness ==
    /\ job = "stopped" /\ last.p = "runNow" /\ last.kind = "returned"
    /\ ~last.hit /\ scrapeCount = 1 /\ ~isRunning

\* a step in which start() is called
IsStart == job = "null" /\ job' = "scheduled"

\* C16: start() schedules the cron task and begins a cycle in the same step,
\* returning while that cycle is in flight; a tick of the cron task that
\* fires while the cycle is in flight is skipped, so the two never run side
\* by side
C16_StartRunsNow ==
    [][/\ IsStart =>
             /\ calls' = calls + 1
             /\ \/ isRunning' /\ pc'["runNow"] # "idle"
                \/ last'.p = "runNow" /\ last'.kind = "returned" /\ last'.hit
       /\ (pc["runNow"] # "idle" /\ IsCronInvocation) =>
             last'.kind = "skipped" /\ pc' = pc
       /\ ~(pc'["cron"] # "idle" /\ pc'["runNow"] # "idle")]_vars

\* C16 witness: a tick has just been skipped while the cycle begun by start()
\* is navigating
C16_Witness ==
    /\ job = "scheduled" /\ last.p = "cron" /\ last.kind = "skipped"
    /\ pc["runNow"] = "goto" /\ isRunning

\* C17: at most one browser is launched and not closed at any time, and the
\* service references every browser that is
C17_OneBrowser ==
    /\ Cardinality(live) <= 1
    /\ \A b \in live : b = browser

\* the awaits of a cycle that use its browser or its page
Rendering == {"newPage", "goto", "probe", "api", "load", "extract", "close"}

\* C18: the browser is not closed under a cycle in flight: no cycle is at an
\* await on a browser that is being closed or has been closed
C18_NoTeardownInFlight ==
    \A p \in Callers : pc[p] \in Rendering =>
        br[p] # closing /\ br[p] \in live

\* a step in which cleanup() returns
IsCleanupReturn == last'.p = "cleanup" /\ last'.kind = "returned"

ClearedWithinInterval ==
    /\ tainted /\ ~cache[cacheKey].present
    /\ lastScrapeTime # 0 /\ now - lastScrapeTime < SCRAPE_INTERVAL

\* C20 as stated: after the entry was deleted or cleared less than a scrape
\* interval after the last scrape, the next call returns a record set and
\* starts no second navigation in that interval
C20_CadenceKept ==
    [][(IsRefreshCall /\ ClearedWithinInterval) =>
          /\ last'.kind = "returned" /\ IsArray(last'.value)
          /\ pc' = pc /\ launches' = launches /\ openPages' = openPages]_vars

\* C20 amended: after the entry was deleted or cleared less than a scrape
\* interval after the last scrape, the next call finds nothing in the cache
\* (a miss), is not answered at once and starts a cycle of its own, a second
\* one in that interval; lastScrapeTime alone never answers a call
C20_ClearedMeansRescrape ==
    [][(IsRefreshCall /\ ClearedWithinInterval) =>
          /\ stats'.misses = stats.misses + 1 /\ stats'.hits = stats.hits
          /\ last' = NoCall
          /\ \E p \in Callers :
                pc[p] = "idle" /\ pc'[p] \in {"launch", "newPage"}]_vars

\* C20 witness: less than an interval after the last scrape and after a
\* delete or clear, a call has navigated again
C20_Witness ==
    /\ ClearedWithinInterval
    /\ \E p \in Callers : pc[p] = "probe" /\ Has(steps[p], "navigate")

(***************************************************************************)
(* Properties of lastScrapeTime as the health route exposes it             *)
(***************************************************************************)
\* GET /api/health: the scraper part of the response
healthScraper ==
    [isInitialized |-> isInitialized,
     lastScrapeTime |-> IF lastScrapeTime # 0 THEN toISOString(lastScrapeTime)
                        ELSE "Never"]

\* a step in which a cycle writes a mock batch to the cache
IsFallbackWrite ==
    /\ stats'.sets = stats.sets + 1
    /\ cache'[cacheKey].present /\ cache'[cacheKey].value.mock # <<>>

\* C22 as stated: a cycle that ends in the mock data does not advance
\* lastScrapeTime, so the timestamp the health route shows stays that of the
\* last cycle that produced scraped data
C22_FallbackKeepsStamp ==
    [][IsFallbackWrite =>
          /\ lastScrapeTime' = lastScrapeTime
          /\ healthScraper'.lastScrapeTime = healthScraper.lastScrapeTime]_vars

\* C22 amended: lastScrapeTime is the instant of the last cache write of a
\* cycle, scraped or mock: a cycle that ends in the mock data sets it to the
\* instant of its write as a cycle with scraped data does, and the health
\* route shows that instant
C22_FallbackStamps ==
    [][/\ IsFallbackWrite =>
             /\ lastScrapeTime' = now
             /\ healthScraper'.lastScrapeTime = toISOString(now)
             /\ cache'[cacheKey].expiresAt = now + SCRAPE_INTERVAL
       /\ lastScrapeTime' # lastScrapeTime =>
             stats'.sets = stats.sets + 1 /\ lastScrapeTime' = now]_vars

\* C22 witness: a cycle wrote scraped data and is closing its page; later
\* another cycle has ended in the mock data, and lastScrapeTime is the instant
\* of that later write
C22_Witness ==
    /\ \E p \in Callers :
          /\ pc[p] = "close" /\ wrote[p].done /\ wrote[p].value.mock = <<>>
          /\ wrote[p].at < lastScrapeTime
    /\ last.kind = "returned" /\ ~last.hit /\ Has(last.steps, "mock")
    /\ last.wrote.at = lastScrapeTime
    /\ healthScraper.lastScrapeTime = toISOString(last.wrote.at)

(***************************************************************************)
(* Properties of CacheService.delete, cleanup and getStats                 *)
(***************************************************************************)
\* get(k) would return the entry of k now: it is stored and has not expired
WouldGet(k) == cache[k].present /\ ~(now > cache[k].expiresAt)

\* a step in which delete(k) returns
IsDelete(k) == last'.kind = "delete" /\ last'.key = k

\* C23: delete(key) returns true and adds one to the delete counter exactly
\* when the key holds an entry that get(key) would have returned, an expired
\* entry counting as absent; otherwise it returns false and changes no
\* counter; the entry is gone afterwards, and stays gone until the next set
C23_DeleteReports ==
    [][\A k \in Keys :
          /\ (IsDelete(k) /\ WouldGet(k)) =>
                /\ last'.steps = <<"true">>
                /\ stats' = [stats EXCEPT !.deletes = @ + 1]
          /\ (IsDelete(k) /\ ~WouldGet(k)) =>
                last'.steps = <<"false">> /\ stats' = stats
          /\ IsDelete(k) => ~cache'[k].present
          /\ (~cache[k].present /\ cache'[k].present) =>
                last'.kind = "set" /\ last'.key = k]_vars

\* the entry of k is stored and its expiry has passed
Expired(k) == cache[k].present /\ now > cache[k].expiresAt

\* C24: cleanup() removes exactly the entries whose expiry has passed and
\* leaves every other entry, with its value and expiry, and the four counters
\* as they were; nothing runs it implicitly: an expired entry is removed only
\* by cleanup, by clear, or by get or delete of its own key, never by set,
\* by getStats or by get of another key
C24_CleanupSweeps ==
    [][/\ last'.kind = "cleanup" =>
             /\ \A k \in Keys :
                   cache'[k] = IF Expired(k) THEN NoEntry ELSE cache[k]
             /\ stats' = stats
       /\ \A k \in Keys : (Expired(k) /\ ~cache'[k].present) =>
             \/ last'.kind \in {"cleanup", "clear"}
             \/ last'.kind \in {"get", "delete"} /\ last'.key = k
       /\ last'.kind = "getStats" => cache' = cache /\ stats' = stats
       /\ \A k \in Keys : (last'.kind \in {"set", "get"} /\ last'.key # k) =>
             cache'[k] = cache[k]]_vars

\* C24 witness: with no lookup made, cleanup() has just removed an entry that
\* had been set, and an unexpired entry is still stored
C24_Witness ==
    /\ last.kind = "cleanup" /\ stats.hits + stats.misses = 0
    /\ stats.deletes = 0
    /\ \E k \in Keys : stored[k].set /\ ~cache[k].present
    /\ \E k \in Keys : cache[k].present /\ ~(now > cache[k].expiresAt)

\* the hundredths of a percentage as text
Hundredths(n) ==
    ToString(n \div 100) \o "." \o
    (IF n % 100 < 10 THEN "0" ELSE "") \o ToString(n % 100)

\* n hundredths is as near to h / (h + m) * 100 as hundredths get
NearestHundredths(n, h, m) ==
    LET d == n * (h + m) - 10000 * h
    IN 2 * (IF d < 0 THEN 0 - d ELSE d) <= h + m

\* C25: every get adds one to hits + misses, to the hits exactly when it
\* returned a value, and nothing else changes either counter, so that
\* hits + misses is the number of get calls; the hit rate getStats() reports is
\* hits / (hits + misses) * 100 rounded to two decimals, and "0%" before the
\* first lookup
C25_HitRate ==
    [][/\ last'.kind = "get" =>
             /\ stats'.hits = stats.hits + (IF last'.value # NullVal THEN 1 ELSE 0)
             /\ stats'.hits + stats'.misses = stats.hits + stats.misses + 1
       /\ last'.kind # "get" =>
             stats'.hits = stats.hits /\ stats'.misses = stats.misses
       /\ last'.kind = "getStats" =>
             LET h == stats.hits
                 m == stats.misses
             IN IF h + m = 0 THEN last'.steps = <<"0%">>
                ELSE \E n \in {(10000 * h) \div (h + m), (10000 * h) \div (h + m) + 1} :
                        /\ NearestHundredths(n, h, m)
                        /\ last'.steps = <<Hundredths(n) \o "%">>]_vars

\* C25 witness: after one hit and one miss getStats() has reported 50.00%
C25_Witness ==
    /\ last.kind = "getStats" /\ last.steps = <<"50.00%">>
    /\ stats.hits = 1 /\ stats.misses = 1

(***************************************************************************)
(* The query layer of ParkingScraperService.  A JS number is modelled by   *)
(* an integer: a coordinate in millionths of a degree, a distance in       *)
(* decimetres.  NaN is a value of its own, and every comparison with it is *)
(* false.                                                                  *)
(***************************************************************************)
NaN == 2000000000
isNaN(x) == x = NaN
\* a < b, a > b and a <= b on JS numbers
lt(a, b) == ~isNaN(a) /\ ~isNaN(b) /\ a < b
gt(a, b) == lt(b, a)
le(a, b) == ~isNaN(a) /\ ~isNaN(b) /\ a <= b

\* the numbers whose decimal text the inputs use: four decimals of a degree,
\* around the centre of the mock data
GridSteps == 300
Latitudes == {MOCK_LAT + 100 * k : k \in (0 - GridSteps)..GridSteps}
Longitudes == {MOCK_LON + 100 * k : k \in (0 - GridSteps)..GridSteps}
Numbers == Latitudes \cup Longitudes

\* the text of a number with four decimals, as the source table prints it
Fixed4(u) ==
    LET a == IF u < 0 THEN 0 - u ELSE u
    IN (IF u < 0 THEN "-" ELSE "") \o ToString(a \div 1000000) \o "." \o
       padStart(ToString((a % 1000000) \div 100), 4, "0")

\* parseFloat(s): the number a decimal text denotes, with or without trailing
\* zeros; NaN for the empty text and for a text that is no number
DecimalTexts ==
    {<<String(u), u>> : u \in Numbers} \cup {<<Fixed4(u), u>> : u \in Numbers}
ParseTable ==
    [s \in {d[1] : d \in DecimalTexts} |-> CHOOSE u \in Numbers : <<s, u>> \in DecimalTexts]
parseFloat(s) == IF s \in DOMAIN ParseTable THEN ParseTable[s] ELSE NaN

\* Math.cos of an angle given in millionths of a degree, in ten-thousandths
cos(phi) ==
    LET a == IF phi < 0 THEN 0 - phi ELSE phi
        x == ((a \div 1000) * 17453) \div 100000
        x2 == (x * x) \div 10000
        x4 == (x2 * x2) \div 10000
        x6 == (x4 * x2) \div 10000
    IN 10000 - x2 \div 2 + x4 \div 24 - x6 \div 720

\* the least n with n * n >= x, sought between lo and hi
RECURSIVE ceilSqrt(_, _, _)
ceilSqrt(x, lo, hi) ==
    IF lo >= hi THEN lo
    ELSE LET mid == (lo + hi) \div 2
         IN IF mid * mid >= x THEN ceilSqrt(x, lo, mid)
            ELSE ceilSqrt(x, mid + 1, hi)

\* R * pi / 180 for R = 6371e3: the decimetres of a millionth of a degree
arc(d) == d + (d * 11195) \div 100000
\* the differences of coordinates beyond which the distance is only known to
\* exceed every radius explored
FarDegrees == 25000
FarAway == 40000

\* calculateDistance(lat1, lon1, lat2, lon2): the haversine distance, in
\* decimetres rounded up; for the short arcs explored sin x is x and atan2 is
\* the arc
calculateDistance(lat1, lon1, lat2, lon2) ==
    IF isNaN(lat1) \/ isNaN(lon1) \/ isNaN(lat2) \/ isNaN(lon2) THEN NaN
    ELSE LET abs(v) == IF v < 0 THEN 0 - v ELSE v
             dphi == abs(lat2 - lat1)
             dlam == abs(lon2 - lon1)
         IN IF dphi > FarDegrees \/ dlam > FarDegrees THEN FarAway
            ELSE LET dy == arc(dphi)
                     dx == arc(dlam)
                     c == (cos(lat1) * cos(lat2)) \div 10000
                     dx2 == ((dx * dx) \div 10000) * c + (((dx * dx) % 10000) * c) \div 10000
                 IN ceilSqrt(dy * dy + dx2, 0, FarAway)

\* spot.status !== PARKING_STATUS.PRESENT && spot.status !== "Present"
isAvailable(spot) == spot.status # "Present"

\* transformSingleSpot(spot); a property that is not there reads undefined
transformSingleSpot(spot) ==
    [bayId |-> spot.bay_id,
     status |-> spot.status,
     isAvailable |-> isAvailable(spot),
     location |-> [lat |-> parseFloat(spot.lat), lon |-> parseFloat(spot.lon)],
     lastUpdated |-> spot.lastupdated,
     streetMarker |-> IF spot.st_marker_id # "" THEN spot.st_marker_id ELSE "undefined"]

\* transformSpotData(spots)
transformSpotData(spots) == [i \in 1..Len(spots) |-> transformSingleSpot(spots[i])]

\* faulty variant of getAvailableSpots: the spots with status Unoccupied
getAvailableSpotsUnoccupied(data) ==
    LET unoccupied(spot) == spot.status = "Unoccupied"
        availableSpots == SelectSeq(data, unoccupied)
    IN [total |-> Len(availableSpots), spots |-> transformSpotData(availableSpots)]

\* getAvailableSpots() on the array scrapeParkingData resolved with
getAvailableSpots(data) ==
    LET availableSpots == SelectSeq(data, isAvailable)
    IN [total |-> Len(availableSpots), spots |-> transformSpotData(availableSpots)]

\* getNearbySpots(lat, lon, radius), the radius in metres
getNearbySpots(data, lat, lon, radius) ==
    LET near(spot) ==
            le(calculateDistance(lat, lon, parseFloat(spot.lat), parseFloat(spot.lon)),
               10 * radius)
        nearbySpots == SelectSeq(data, near)
        availableNearby == SelectSeq(nearbySpots, isAvailable)
    IN [total |-> Len(nearbySpots), available |-> Len(availableNearby),
        radius |-> radius, center |-> [lat |-> lat, lon |-> lon],
        spots |-> transformSpotData(nearbySpots)]

\* faulty variant of getAreaSpots: the edges belong to the area
getAreaSpotsClosed(data, areaBounds) ==
    LET inArea(spot) ==
            LET lat == parseFloat(spot.lat)
                lon == parseFloat(spot.lon)
            IN /\ le(areaBounds.minLat, lat) /\ le(lat, areaBounds.maxLat)
               /\ le(areaBounds.minLon, lon) /\ le(lon, areaBounds.maxLon)
        areaSpots == SelectSeq(data, inArea)
        availableInArea == SelectSeq(areaSpots, isAvailable)
    IN [bounds |-> areaBounds, total |-> Len(areaSpots),
        available |-> Len(availableInArea), spots |-> transformSpotData(areaSpots)]

\* getAreaSpots(areaBounds)
getAreaSpots(data, areaBounds) ==
    LET inArea(spot) ==
            LET lat == parseFloat(spot.lat)
                lon == parseFloat(spot.lon)
            IN /\ gt(lat, areaBounds.minLat) /\ lt(lat, areaBounds.maxLat)
               /\ gt(lon, areaBounds.minLon) /\ lt(lon, areaBounds.maxLon)
        areaSpots == SelectSeq(data, inArea)
        availableInArea == SelectSeq(areaSpots, isAvailable)
    IN [bounds |-> areaBounds, total |-> Len(areaSpots),
        available |-> Len(availableInArea), spots |-> transformSpotData(areaSpots)]

\* getBayInfo(bayId): data.find((s) => s.bay_id === bayId), null without a match
getBayInfo(data, bayId) ==
    LET matches(s) == s.bay_id = bayId
        found == SelectSeq(data, matches)
    IN IF found = <<>> THEN NullVal ELSE transformSingleSpot(Head(found))

\* faulty variant of getStatistics: the rate is that of the available spots
getStatisticsAvailableRate(data, t) ==
    LET totalSpots == Len(data)
        availableSpots == Len(SelectSeq(data, isAvailable))
        occupiedSpots == totalSpots - availableSpots
    IN [total |-> totalSpots, available |-> availableSpots, occupied |-> occupiedSpots,
        occupancyRate |-> IF totalSpots > 0
                          THEN toFixed2(availableSpots, totalSpots) \o "%"
                          ELSE "0%",
        lastUpdated |-> toISOString(t), dataSource |-> "web-scraping"]

\* getStatistics() at time t
getStatistics(data, t) ==
    LET totalSpots == Len(data)
        availableSpots == Len(SelectSeq(data, isAvailable))
        occupiedSpots == totalSpots - availableSpots
    IN [total |-> totalSpots, available |-> availableSpots, occupied |-> occupiedSpots,
        occupancyRate |-> IF totalSpots > 0
                          THEN toFixed2(occupiedSpots, totalSpots) \o "%"
                          ELSE "0%",
        lastUpdated |-> toISOString(t), dataSource |-> "web-scraping"]

(***************************************************************************)
(* The requests and the seeded record sets explored                        *)
(***************************************************************************)
\* constants.js AREAS.cbd.bounds and AREAS.carlton.bounds
CBD == [minLat |-> -37825000, maxLat |-> -37810000,
        minLon |-> 144955000, maxLon |-> 144975000]
CARLTON == [minLat |-> -37810000, maxLat |-> -37790000,
            minLon |-> 144960000, maxLon |-> 144975000]

NoArgs == [none |-> TRUE]
Request(m, a) == [method |-> m, args |-> a]
Radii == {0, 500, 2000}
BayIds == {"1001", "S1", "MOCK-001", "nonexistent-id"}
Requests ==
    {Request("getAllParkingData", NoArgs), Request("getAvailableSpots", NoArgs),
     Request("getStatistics", NoArgs)}
    \cup {Request("getNearbySpots", [lat |-> MOCK_LAT, lon |-> MOCK_LON, radius |-> r]) :
            r \in Radii}
    \cup {Request("getAreaSpots", [bounds |-> b]) : b \in {CBD, CARLTON}}
    \cup {Request("getBayInfo", [bayId |-> id]) : id \in BayIds}

\* two free bays within 100 m of the centre and an occupied one 1000 m away
SeedScenario ==
    << Rec("S1", "M1", "Unoccupied", "-37.8136", "144.9631", "2024-01-01T00:00:00Z"),
       Rec("S2", "M2", "Unoccupied", "-37.8140", "144.9640", "2024-01-01T00:00:00Z"),
       Rec("S3", "M3", "Present", "-37.8226", "144.9631", "2024-01-01T00:00:00Z") >>
\* a label that is neither Present nor Unoccupied, a bay on the edges of two
\* areas, a coordinate that is no number, and a bay id held by two records
SeedOdd ==
    << Rec("S1", "M1", "Unknown", "-37.8100", "144.9600", "2024-01-01T00:00:00Z"),
       Rec("S4", "", "Present", "n/a", "144.9650", "2024-01-01T00:00:00Z"),
       Rec("S1", "M5", "Present", "-37.8200", "144.9750", "2024-01-01T00:00:00Z"),
       Rec("S6", "M6", "present", "-37.8150", "144.9650", "2024-01-01T00:00:00Z") >>
SeedSets == {<<>>, SeedScenario, SeedOdd}

\* what a query method hands to its caller once scrapeParkingData has settled:
\* its catch block rethrows the error of scrapeParkingData, and the TypeError
\* of data.filter / data.find on a value that is no array
answer(rq, threw, v, t) ==
    LET m == rq.method
        a == rq.args
        data == Elems(v)
    IN IF threw THEN [method |-> m, args |-> a, error |-> "rethrown", body |-> NullVal]
       ELSE IF m = "getAllParkingData"
       THEN [method |-> m, args |-> a, error |-> "none",
             body |-> [data |-> v, cached |-> FALSE]]
       ELSE IF ~IsArray(v)
       THEN [method |-> m, args |-> a, error |-> "TypeError", body |-> NullVal]
       ELSE [method |-> m, args |-> a, error |-> "none",
             body |-> CASE m = "getAvailableSpots" -> getAvailableSpots(data)
                        [] m = "getNearbySpots" ->
                              getNearbySpots(data, a.lat, a.lon, a.radius)
                        [] m = "getAreaSpots" -> getAreaSpots(data, a.bounds)
                        [] m = "getBayInfo" -> getBayInfo(data, a.bayId)
                        [] m = "getStatistics" -> getStatistics(data, t)]

(***************************************************************************)
(* QuerySpec: the query methods called one after another on whatever       *)
(* scrapeParkingData hands them, with the cache seeded from outside        *)
(***************************************************************************)
\* cacheService.set(cacheKey, records, ttl) called by another user of the cache
Seed(s, ttl) ==
    /\ LET r == CacheSet(cache, stats, cacheKey, Arr(s), ttl, now)
       IN cache' = r.cache /\ stats' = r.stats
    /\ exts' = exts + 1
    /\ tainted' = TRUE
    /\ UNCHANGED <<now, lastScrapeTime, svcVars, openPages, schedVars, pc,
                   localVars, calls, job, lifeVars>> /\ last' = NoCall

\* the query method resumes after `await this.scrapeParkingData()` and
\* returns or throws; its arguments play no part before that
Answer(rq) ==
    /\ last.p \in Queries /\ last.kind \in {"returned", "threw"}
    /\ last' = [last EXCEPT !.kind = "answered",
                            !.reply = answer(rq, last.kind = "threw", last.value, now)]
    /\ UNCHANGED <<now, cacheVars, svcVars, openPages, schedVars, pc, localVars,
                   calls, exts, job, lifeVars>>

\* the pages explored here: a table, nothing at all, and an inline script
\* whose JSON parses
PageScript == [tables |-> << <<>>, <<>> >>, scripts |-> <<"plain", "badjson", "json">>]
QueryPages == {PageTable, PageBlank, PageScript}

QueryNext ==
    \/ \E p \in Queries : calls < MaxCalls /\ Query(p)
    \/ \E p \in Queries : LaunchDone(p)
    \/ \E p \in Queries : NewPage(p)
    \/ \E p \in Queries : Goto(p)
    \/ \E p \in Queries : Probe(p)
    \/ \E p \in Queries : Intercept(p, ApiResults)
    \/ \E p \in Queries : LoadAllData(p)
    \/ \E p \in Queries : Extract(p, QueryPages)
    \/ \E p \in Queries : ClosePage(p)
    \/ \E rq \in Requests : Answer(rq)
    \/ \E s \in SeedSets : exts < MaxExt /\ Seed(s, SCRAPE_INTERVAL)
    \/ now + TickMs <= MaxOverlapTime /\ Tick

QuerySpec == Init /\ [][QueryNext]_vars

(***************************************************************************)
(* Properties of the query methods                                         *)
(***************************************************************************)
\* the cache holds an unexpired record set under the key of the scraper
HoldsSet ==
    /\ cache[cacheKey].present /\ ~(now > cache[cacheKey].expiresAt)
    /\ IsArray(cache[cacheKey].value)

\* a query method has just handed m's result to its caller
Answered(m) == last.kind = "answered" /\ last.reply.method = m

\* C21: a query called while the cache holds an unexpired record set S gets S
\* from scrapeParkingData at once, no cycle starting and S staying in the
\* cache, and computes its result from S; for the set of two free bays within
\* 100 m and an occupied one 1000 m away, getAvailableSpots has total 2,
\* getNearbySpots within 500 m total 2 and available 2, within 2000 m total 3
\* and available 2
C21_ServedFromCache ==
    [][/\ (IsRefreshCall /\ HoldsSet) =>
             /\ last'.kind = "returned" /\ last'.hit
             /\ last'.value = cache[cacheKey].value
             /\ cache' = cache /\ pc' = pc
       /\ (last'.kind = "answered" /\ last.value = Arr(SeedScenario)) =>
             LET r == last'.reply
             IN /\ r.error = "none"
                /\ r.method = "getAvailableSpots" => r.body.total = 2
                /\ (r.method = "getNearbySpots" /\ r.args.radius = 500) =>
                      r.body.total = 2 /\ r.body.available = 2
                /\ (r.method = "getNearbySpots" /\ r.args.radius = 2000) =>
                      r.body.total = 3 /\ r.body.available = 2]_vars

\* the number of records of a set that are not Present
NotPresent(r) == r.status # "Present"
CountFree(data) == Cardinality({i \in 1..Len(data) : NotPresent(data[i])})

\* C26: for every record set getStatistics reports total = the number of
\* records, available = the number of records whose status is not Present,
\* occupied = total - available, both at least 0, occupancyRate =
\* occupied / total * 100 to two decimals or "0%" for an empty set, and the
\* same dataSource for scraped and mock data
C26_Statistics ==
    /\ (Answered("getStatistics") /\ IsArray(last.value)) =>
          LET data == Elems(last.value)
              b == last.reply.body
          IN /\ last.reply.error = "none"
             /\ b.total = Len(data) /\ b.available = CountFree(data)
             /\ b.occupied = b.total - b.available
             /\ b.available >= 0 /\ b.occupied >= 0
             /\ b.available + b.occupied = b.total
             /\ IF b.total = 0 THEN b.occupancyRate = "0%"
                ELSE \E n \in {(10000 * b.occupied) \div b.total,
                               (10000 * b.occupied) \div b.total + 1} :
                        /\ NearestHundredths(n, b.occupied, b.available)
                        /\ b.occupancyRate = Hundredths(n) \o "%"
             /\ b.dataSource = "web-scraping"

\* C26 witness: the statistics of a mock batch, a fifth of it occupied
C26_Witness ==
    /\ Answered("getStatistics") /\ last.value.mock # <<>>
    /\ last.reply.body.total = 100 /\ last.reply.body.occupied = 20
    /\ last.reply.body.occupancyRate = "20.00%"

\* the spots of a reply are the records of `expected` in their order
SameSpots(spots, expected) ==
    /\ Len(spots) = Len(expected)
    /\ \A i \in 1..Len(spots) :
          /\ spots[i].bayId = expected[i].bay_id
          /\ spots[i].status = expected[i].status
          /\ spots[i].lastUpdated = expected[i].lastupdated

\* the spots of a reply that are flagged available are those not Present
FlagsRight(spots) ==
    \A i \in 1..Len(spots) : spots[i].isAvailable <=> spots[i].status # "Present"
FreeAmong(spots) == Cardinality({i \in 1..Len(spots) : spots[i].status # "Present"})

\* C27: getAvailableSpots returns exactly the records whose status is not
\* Present, whatever else the label is, in their order, with total their
\* number and isAvailable true on each; available means the same in
\* getNearbySpots, getAreaSpots and getStatistics
C27_Available ==
    /\ (Answered("getAvailableSpots") /\ IsArray(last.value)) =>
          LET b == last.reply.body
          IN /\ SameSpots(b.spots, SelectSeq(Elems(last.value), NotPresent))
             /\ b.total = Len(b.spots)
             /\ \A i \in 1..Len(b.spots) : b.spots[i].isAvailable
    /\ ((Answered("getNearbySpots") \/ Answered("getAreaSpots")) /\ IsArray(last.value)) =>
          LET b == last.reply.body
          IN b.available = FreeAmong(b.spots) /\ FlagsRight(b.spots)
    /\ (Answered("getStatistics") /\ IsArray(last.value)) =>
          last.reply.body.available = CountFree(Elems(last.value))

\* C27 witness: of a seeded set with the labels Unknown, Present and present
\* the two records that are not Present have been returned, Unknown first
C27_Witness ==
    /\ Answered("getAvailableSpots") /\ last.value = Arr(SeedOdd)
    /\ last.reply.body.total = 2
    /\ last.reply.body.spots[1].status = "Unknown"
    /\ last.reply.body.spots[2].status = "present"

\* a record lies strictly inside the bounds b, both coordinates being numbers
Inside(r, b) ==
    LET la == parseFloat(r.lat)
        lo == parseFloat(r.lon)
    IN /\ la # NaN /\ lo # NaN
       /\ b.minLat < la /\ la < b.maxLat /\ b.minLon < lo /\ lo < b.maxLon

\* C28: getAreaSpots returns exactly the records strictly inside the bounds
\* on both axes: none on an edge, none whose coordinate is no number; available
\* counts the returned spots that are not Present and is at most total
C28_AreaStrict ==
    (Answered("getAreaSpots") /\ IsArray(last.value)) =>
        LET b == last.reply.body
            bounds == last.reply.args.bounds
            in(r) == Inside(r, bounds)
        IN /\ last.reply.error = "none"
           /\ SameSpots(b.spots, SelectSeq(Elems(last.value), in))
           /\ b.total = Len(b.spots)
           /\ \A i \in 1..Len(b.spots) :
                 /\ b.spots[i].location.lat \notin {bounds.minLat, bounds.maxLat, NaN}
                 /\ b.spots[i].location.lon \notin {bounds.minLon, bounds.maxLon, NaN}
           /\ b.available = FreeAmong(b.spots) /\ b.available <= b.total

\* C28 witness: of a seeded set with a bay on the northern edge of the CBD,
\* one on its eastern edge, one without a latitude and one inside, the one
\* inside has been returned
C28_Witness ==
    /\ Answered("getAreaSpots") /\ last.value = Arr(SeedOdd)
    /\ last.reply.args.bounds = CBD
    /\ last.reply.body.total = 1 /\ last.reply.body.spots[1].bayId = "S6"

\* C29: getBayInfo never throws: for an id that no record of the set from
\* scrapeParkingData has it returns null, and for an id that some record has
\* the transformed first such record
C29_BayInfoNeverThrows ==
    Answered("getBayInfo") =>
        LET id == last.reply.args.bayId
            data == Elems(last.value)
            hits == {i \in 1..Len(data) : data[i].bay_id = id}
        IN /\ last.reply.error = "none"
           /\ hits = {} => last.reply.body = NullVal
           /\ hits # {} =>
                 LET first == CHOOSE i \in hits : \A j \in hits : i <= j
                 IN /\ last.reply.body.bayId = id
                    /\ last.reply.body.status = data[first].status
                    /\ last.reply.body.lastUpdated = data[first].lastupdated

(***************************************************************************)
(* Properties of the order of the steps of a cycle                         *)
(***************************************************************************)
\* the cycles in flight and the one that just settled: their steps and their
\* cache write
Cycles ==
    {[h |-> steps[p], w |-> wrote[p]] : p \in Callers}
    \cup {[h |-> last.steps, w |-> last.wrote]}

ExtractSteps == {"table+", "table0", "json+", "json0"}
ApiSteps == {"api+", "api0"}
\* the place of the first x in h, and x comes before every y of ys in h
Place(h, x) == CHOOSE i \in 1..Len(h) : h[i] = x /\ \A j \in 1..(i - 1) : h[j] # x
Precedes(h, x, ys) ==
    \A i \in 1..Len(h) : h[i] \in ys => (Has(h, x) /\ Place(h, x) < i)
HasAny(h, ys) == \E i \in 1..Len(h) : h[i] \in ys
\* the write of a cycle stored scraped data, not a mock batch
Scraped(w) == w.done /\ w.value.mock = <<>>

\* C30 as stated: navigation ends before loadAllData starts and loadAllData
\* before the extraction; no cycle writes the cache before it has navigated,
\* and a cycle that caches scraped data has navigated, loaded and extracted,
\* in that order
C30_StrictOrder ==
    \A c \in Cycles :
        /\ Precedes(c.h, "navigate", {"load"})
        /\ Precedes(c.h, "load", ExtractSteps)
        /\ c.w.done => Has(c.h, "navigate")
        /\ Scraped(c.w) =>
              /\ Has(c.h, "navigate") /\ Has(c.h, "load")
              /\ HasAny(c.h, ExtractSteps)

\* C30 amended: navigation ends before API interception and loadAllData start,
\* and loadAllData before the extraction; a cycle writes the cache once.
\* Scraped data are cached either by the extraction, after navigation and
\* loadAllData in that order, or by API interception right after navigation,
\* and then the cycle neither loads nor extracts.  A cycle whose launch,
\* newPage or navigation fails caches a mock batch without having navigated
C30_CodeOrder ==
    \A c \in Cycles :
        /\ Precedes(c.h, "navigate", ApiSteps \cup {"load"})
        /\ Precedes(c.h, "load", ExtractSteps)
        /\ Has(c.h, "api+") =>
              /\ c.h[Len(c.h)] = "api+" /\ Scraped(c.w)
              /\ ~Has(c.h, "load") /\ ~HasAny(c.h, ExtractSteps)
        /\ Scraped(c.w) =>
              /\ Has(c.h, "navigate")
              /\ c.h[Len(c.h)] \in {"api+", "table+", "json+"}
              /\ c.h[Len(c.h)] # "api+" => Has(c.h, "load")
        /\ (c.w.done /\ ~Has(c.h, "navigate")) =>
              /\ ~Scraped(c.w)
              /\ HasAny(c.h, {"throw:launch", "throw:newPage", "throw:goto"})
        /\ (c.w.done /\ ~Scraped(c.w)) => c.h[Len(c.h)] = "mock"
        /\ ~c.w.done => ~HasAny(c.h, {"api+", "table+", "json+", "mock"})

\* C30 witness: a cycle has cached and returned intercepted records without
\* loading or extracting
C30_Witness ==
    /\ last.kind = "returned" /\ ~last.hit /\ Scraped(last.wrote)
    /\ last.steps = <<"navigate", "notfound", "api+">>

\* ---------------------------------------------------------------------------
\* interceptAPICall(page) step by step (parkingScraperService.js 251-291).
\* Intercept(p, results) above takes the array the promise resolves with from
\* the fixtures; here the promise, the array `apiData`, the two timers and the
\* bodies being read are the state.  Times are milliseconds since the call.
\* ---------------------------------------------------------------------------

\* setTimeout(() => resolve(apiData), 2000) after each accumulation
QUIET_MS == 2000
\* setTimeout(() => resolve(apiData), 10000) once the reload has resolved
FALLBACK_MS == 10000

\* milliseconds per clock step, responses per call
StepMs == 1000
MaxResponses == 2
IcHorizon == FALLBACK_MS + QUIET_MS

\* What a response turns out to be: "array" matches the URL test, is JSON and
\* is a non-empty array; "empty" is a matching JSON empty array; "object" is
\* matching JSON that is no array; "bad" matches and response.json() rejects;
\* "other" fails the URL/content-type test of lines 261-264.
ResponseKinds == {"array", "empty", "object", "bad", "other"}

\* the rows of the body of response id (response id carries id rows)
payload(id) == [k \in 1..id |-> [resp |-> id, row |-> k]]

\* resolve(apiData): settles the promise the first time, does nothing later.
\* The promise is settled with the array itself, not with a copy.
resolve(c, why) ==
    IF c.resolved THEN c
    ELSE [c EXCEPT !.resolved = TRUE, !.handed = c.apiData, !.how = why]

\* lines 269-275 with one armed timer left running (faulty variant)
accumulateNoRestart(c, id) ==
    [c EXCEPT !.apiData = @ \o payload(id),
              !.quiet = IF c.quiet # 0 THEN c.quiet ELSE c.clock + QUIET_MS]

\* lines 269-275: apiData.push(...data); clearTimeout; setTimeout(..., 2000)
accumulate(c, id) ==
    [c EXCEPT !.apiData = @ \o payload(id),
              !.quiet = c.clock + QUIET_MS]

icFrame == <<now, cacheVars, svcVars, openPages, schedVars, pc, localVars,
             calls, exts, job, closing, stored, last>>

\* lines 252-257 and 284: the listener is attached and the reload requested
InterceptStart ==
    /\ ic.phase = "idle"
    /\ ic' = [ic EXCEPT !.phase = "listening", !.reload = "pending"]
    /\ UNCHANGED icFrame

\* line 257: a "response" event while the page is open.  The listener is never
\* removed, so it runs after the promise has settled as well.  A response that
\* passes the test of lines 261-264 starts `await response.json()`.
Response(kind) ==
    /\ ic.phase = "listening"
    /\ ic.responses < MaxResponses
    /\ LET id == ic.responses + 1
       IN ic' = IF kind = "other"
                THEN [ic EXCEPT !.responses = id]
                ELSE [ic EXCEPT !.responses = id,
                                !.reading = @ \cup {[id |-> id, kind |-> kind]},
                                !.arrived = IF kind = "array"
                                            THEN Append(@, id) ELSE @]
    /\ UNCHANGED icFrame

\* lines 266-279: response.json() settles for one of the bodies being read, in
\* any order
Parsed(r) ==
    /\ ic.phase = "listening"
    /\ r \in ic.reading
    /\ ic' = IF r.kind = "array"
             THEN accumulate([ic EXCEPT !.reading = @ \ {r}], r.id)
             ELSE [ic EXCEPT !.reading = @ \ {r}]
    /\ UNCHANGED icFrame

\* lines 285-288: page.reload() resolves and the fallback timer is set
ReloadDone ==
    /\ ic.phase = "listening"
    /\ ic.reload = "pending"
    /\ ic' = [ic EXCEPT !.reload = "done",
                        !.fallback = ic.clock + FALLBACK_MS]
    /\ UNCHANGED icFrame

\* line 289: page.reload() rejects
ReloadFailed ==
    /\ ic.phase = "listening"
    /\ ic.reload = "pending"
    /\ ic' = resolve([ic EXCEPT !.reload = "failed"], "reloadFailed")
    /\ UNCHANGED icFrame

\* line 275: the quiet timer fires
QuietFires ==
    /\ ic.quiet # 0
    /\ ic.clock >= ic.quiet
    /\ ic' = resolve([ic EXCEPT !.quiet = 0], "quiet")
    /\ UNCHANGED icFrame

\* line 287: the fallback timer fires
FallbackFires ==
    /\ ic.fallback # 0
    /\ ic.clock >= ic.fallback
    /\ ic' = resolve([ic EXCEPT !.fallback = 0], "fallback")
    /\ UNCHANGED icFrame

\* scrapeParkingData closes the page after the promise has settled (lines
\* 218-222): no further events, and the bodies still being read are lost
PageClosed ==
    /\ ic.phase = "listening"
    /\ ic.resolved
    /\ ic' = [ic EXCEPT !.phase = "closed", !.reading = {}]
    /\ UNCHANGED icFrame

\* Time passes while the page is open.  A timer that is due fires before the
\* clock moves on; whatever else happens at that instant may still come first.
IcTick ==
    /\ ic.phase = "listening"
    /\ ic.clock < IcHorizon
    /\ ic.quiet # 0 => ic.clock < ic.quiet
    /\ ic.fallback # 0 => ic.clock < ic.fallback
    /\ ic' = [ic EXCEPT !.clock = @ + StepMs]
    /\ UNCHANGED icFrame

InterceptNext ==
    \/ InterceptStart
    \/ \E kind \in ResponseKinds : Response(kind)
    \/ \E r \in ic.reading : Parsed(r)
    \/ ReloadDone
    \/ ReloadFailed
    \/ QuietFires
    \/ FallbackFires
    \/ PageClosed
    \/ IcTick

InterceptSpec == Init /\ [][InterceptNext]_vars

\* ---------------------------------------------------------------------------
\* Properties of interceptAPICall
\* ---------------------------------------------------------------------------

RECURSIVE Bodies(_)
\* the bodies of the responses ids, one after the other
Bodies(ids) == IF ids = <<>> THEN <<>> ELSE payload(Head(ids)) \o Bodies(Tail(ids))

\* the responses that rows come from
Sources(rows) == {rows[i].resp : i \in 1..Len(rows)}
\* the matching non-empty arrays that have arrived
Arrived == {ic.arrived[i] : i \in 1..Len(ic.arrived)}
\* those whose body is still being read
BeingRead == {r.id : r \in {x \in ic.reading : x.kind = "array"}}
\* the step in which the promise settles
Concluding == ~ic.resolved /\ ic'.resolved

\* C31 as stated: when interception concludes, its result is the payload of
\* every matching non-empty JSON array response that has arrived, in arrival
\* order.
C31_ArrivalOrder ==
    [][Concluding => ic'.handed = Bodies(ic'.arrived)]_vars

\* C31, amended: the array grows only by the whole body of one matching
\* non-empty JSON array whose parsing has just finished, so payloads are in the
\* order in which parsing finishes, and every such response that has arrived
\* is either accumulated or still being read; each accumulation sets the quiet
\* timer to 2 s from that instant; interception concludes once, with what has
\* been accumulated by then, when the quiet timer is due, or when the fallback
\* timer set 10 s after the reload completed is due, or in the step in which
\* the reload fails; with nothing accumulated the result is empty.
C31_ParseOrder ==
    [][/\ ic'.apiData # ic.apiData =>
            \E r \in ic.reading :
                /\ r.kind = "array"
                /\ r \notin ic'.reading
                /\ ic'.apiData = ic.apiData \o payload(r.id)
                /\ ic'.quiet = ic.clock + QUIET_MS
       /\ ic'.phase = "listening" =>
            /\ Sources(ic'.apiData) \cup {r.id : r \in {x \in ic'.reading : x.kind = "array"}}
                  = {ic'.arrived[i] : i \in 1..Len(ic'.arrived)}
            /\ Len(ic'.apiData) = Len(Bodies(ic'.arrived))
                  - Len(Bodies(SelectSeq(ic'.arrived,
                        LAMBDA id : [id |-> id, kind |-> "array"] \in ic'.reading)))
       /\ Concluding =>
            /\ ic'.handed = ic.apiData
            /\ \/ /\ ic'.how = "quiet"
                  /\ ic.quiet # 0 /\ ic.clock >= ic.quiet
                  /\ ic.apiData # <<>>
               \/ /\ ic'.how = "fallback"
                  /\ ic.reload = "done"
                  /\ ic.fallback # 0 /\ ic.clock >= ic.fallback
               \/ /\ ic'.how = "reloadFailed"
                  /\ ic.reload = "pending" /\ ic'.reload = "failed"
            /\ Arrived \subseteq BeingRead => ic'.handed = <<>>
       /\ ic.resolved =>
            /\ ic'.resolved
            /\ ic'.handed = ic.handed
            /\ ic'.how = ic.how
      ]_vars

\* two matching arrays arrived, the second was parsed first, and the quiet
\* timer concluded with both
C31_Witness ==
    /\ ic.resolved
    /\ ic.how = "quiet"
    /\ ic.arrived = <<1, 2>>
    /\ ic.handed = payload(2) \o payload(1)

\* C34: once interceptAPICall has concluded, the array it handed back (the one
\* scrapeParkingData caches and returns, lines 113-117) keeps the contents it
\* had at conclusion: a matching body that finishes parsing afterwards appends
\* nothing to it.  A non-empty array is the one that is cached and returned.
C34_HandedSetFrozen ==
    (ic.resolved /\ ic.handed # <<>>) => ic.apiData = ic.handed

\* C32: in every state of every interleaving of scrapeParkingData calls, a
\* cache entry under the scraper's key comes with a non-null lastScrapeTime
\* and expires no later than lastScrapeTime + the scrape interval; the write of
\* the entry and the update of lastScrapeTime happen in one step, so no other
\* caller runs between them; lastScrapeTime never decreases and never returns
\* to null.
C32_EntryHasStamp ==
    [][/\ cache'[cacheKey].present =>
            /\ lastScrapeTime' # 0
            /\ cache'[cacheKey].expiresAt <= lastScrapeTime' + SCRAPE_INTERVAL
       /\ stats'.sets # stats.sets =>
            /\ lastScrapeTime' = now
            /\ cache'[cacheKey].expiresAt = lastScrapeTime' + SCRAPE_INTERVAL
       /\ lastScrapeTime' # lastScrapeTime => stats'.sets = stats.sets + 1
       /\ lastScrapeTime' >= lastScrapeTime
       /\ lastScrapeTime # 0 => lastScrapeTime' # 0
      ]_vars

\* two overlapping cycles have both written, the second at a later instant, and
\* the entry held is the one of the later stamp
C32_Witness ==
    /\ stats.sets = 2
    /\ lastScrapeTime > StartMs
    /\ cache[cacheKey].present
    /\ cache[cacheKey].expiresAt = lastScrapeTime + SCRAPE_INTERVAL

\* the entry under the scraper's key is an unexpired, non-empty set that is not
\* synthetic
HoldsRealSet ==
    /\ cache[cacheKey].present
    /\ now <= cache[cacheKey].expiresAt
    /\ cache[cacheKey].value.tag = "array"
    /\ cache[cacheKey].value.mock = <<>>
    /\ cache[cacheKey].value.elems # <<>>

\* C33: a cycle that ends in the synthetic fallback never replaces an
\* unexpired non-synthetic record set already cached under the scraper's key,
\* such as the one written by an overlapping cycle that succeeded.
C33_FallbackKeepsRealSet ==
    [][HoldsRealSet => ~IsFallbackWrite]_vars

\* the callers whose cycle holds an open page
OpenBy == {p \in Callers : page[p] = "open"}
\* pages counted open that no cycle in flight holds
Leaked == openPages - Cardinality(OpenBy)

CycleStep(p) ==
    \/ LaunchDone(p)
    \/ NewPage(p)
    \/ Goto(p)
    \/ Probe(p)
    \/ Intercept(p, FewApiResults)
    \/ LoadAllData(p)
    \/ Extract(p, FewPages)
    \/ ClosePage(p)

\* the scheduler's invocations, the awaits of its cycle and the clock
FairNext ==
    \/ \E p \in Sched : calls < MaxCalls /\ ExecuteScrape(p)
    \/ \E p \in Sched : CycleStep(p)
    \/ now + TickMs <= MaxTime /\ Tick

FairSpec == Init /\ [][FairNext]_vars /\ \A p \in Sched : WF_vars(CycleStep(p))

\* C36: isRunning is true exactly while a cycle of the scheduler is past the
\* guard; the step in which that cycle's scrapeParkingData settles, returning
\* or throwing, sets it to false; and, every await settling, isRunning = TRUE
\* always leads to isRunning = FALSE, so the guard cannot skip every later
\* tick.
C36_GuardReleases ==
    /\ [](isRunning <=> SchedInFlight # {})
    /\ [][SchedSettles => ~isRunning']_vars
    /\ [][(isRunning /\ ~isRunning') => SchedSettles]_vars
    /\ (isRunning ~> ~isRunning)

\* a cycle of the scheduler has just ended with scrapeParkingData throwing, and
\* isRunning is false again
C36_Witness ==
    /\ last.p \in Sched
    /\ last.kind = "threw"
    /\ errorCount = 1
    /\ ~isRunning

====
